---------------------------- MODULE Spec2Model ----------------------------
(***************************************************************************)
(* Attribute classification, legend and legend-filter subsystem of the     *)
(* spatial SQL explorer (src/js/app.js).                                   *)
(*                                                                         *)
(* Numbers.  JavaScript Numbers are modelled by exact rationals            *)
(* [num, den] in lowest terms (den > 0); the value `undefined` is the      *)
(* record with den = 0.  Column values of the result rows are integers.    *)
(* Floating-point rounding and overflow are not modelled.                  *)
(***************************************************************************)
EXTENDS Integers, Sequences, FiniteSets, TLC

(***************************************************************************)
(* Bounds of the model.                                                    *)
(***************************************************************************)
MaxLen == 6          \* longest sample handed to getBreaks on its own
MaxVal == 3          \* sample values are 0..MaxVal
MaxClasses == 5      \* class counts are 3..MaxClasses (the panel offers 3..9)

(***************************************************************************)
(* Rational arithmetic                                                     *)
(***************************************************************************)
Abs(x) == IF x < 0 THEN -x ELSE x

RECURSIVE GCD(_, _)
GCD(a, b) == IF b = 0 THEN a ELSE GCD(b, a % b)

Rat(n, d) ==
  LET g == GCD(Abs(n), Abs(d))
      s == IF d < 0 THEN -1 ELSE 1
  IN  [num |-> s * (n \div g), den |-> s * (d \div g)]

RInt(i) == [num |-> i, den |-> 1]
Undefined == [num |-> 0, den |-> 0]
IsDefined(r) == r.den # 0

RAdd(a, b) == Rat(a.num * b.den + b.num * a.den, a.den * b.den)
RSub(a, b) == Rat(a.num * b.den - b.num * a.den, a.den * b.den)
RMul(a, b) == Rat(a.num * b.num, a.den * b.den)
RLe(a, b) == a.num * b.den <= b.num * a.den
RLt(a, b) == a.num * b.den < b.num * a.den
RMin(a, b) == IF RLe(a, b) THEN a ELSE b
RMax(a, b) == IF RLe(a, b) THEN b ELSE a

\* JavaScript array read: an index outside the array yields undefined.
At0(arr, i) == IF i >= 0 /\ i < Len(arr) THEN arr[i + 1] ELSE Undefined

SeqMin(s) == CHOOSE x \in {s[i] : i \in DOMAIN s} : \A y \in {s[i] : i \in DOMAIN s} : x <= y
SeqMax(s) == CHOOSE x \in {s[i] : i \in DOMAIN s} : \A y \in {s[i] : i \in DOMAIN s} : x >= y

\* [...values].sort((a, b) => a - b)
SortAsc(s) == SortSeq(s, LAMBDA a, b : a < b)

(***************************************************************************)
(* CLASSIFICATION ALGORITHMS                                               *)
(* Each returns [threw, breaks]: threw is TRUE when the call raises a      *)
(* TypeError; breaks is the returned array (entries may be undefined).     *)
(***************************************************************************)
Methods == {"quantile", "equal", "jenks"}

\* Variant: the range is cut into n + 1 steps.
classifyEqualIntervalShortStep(values, n) ==
  LET min == SeqMin(values)
      max == SeqMax(values)
      step == Rat(max - min, n + 1)
      raw == [i \in 1..(n + 1) |-> RAdd(RInt(min), RMul(step, RInt(i - 1)))]
  IN  [threw |-> FALSE, breaks |-> [raw EXCEPT ![n + 1] = RInt(max)]]

classifyEqualInterval(values, n) ==
  LET min == SeqMin(values)
      max == SeqMax(values)
      step == Rat(max - min, n)
      raw == [i \in 1..(n + 1) |-> RAdd(RInt(min), RMul(step, RInt(i - 1)))]
  IN  [threw |-> FALSE, breaks |-> [raw EXCEPT ![n + 1] = RInt(max)]]

\* Variant: the index of an inner break is rounded up, not down.
classifyQuantileRoundedUp(values, n) ==
  LET sorted == SortAsc(values)
      len == Len(sorted)
      idx(i) == IF ((i * len) + n - 1) \div n < len THEN ((i * len) + n - 1) \div n
                ELSE len - 1
      mid == [i \in 1..(n - 1) |-> RInt(sorted[idx(i) + 1])]
  IN  [threw |-> FALSE,
       breaks |-> <<RInt(sorted[1])>> \o mid \o <<RInt(sorted[len])>>]

classifyQuantile(values, n) ==
  LET sorted == SortAsc(values)
      len == Len(sorted)
      mid == [i \in 1..(n - 1) |-> RInt(sorted[((i * len) \div n) + 1])]
  IN  [threw |-> FALSE,
       breaks |-> <<RInt(sorted[1])>> \o mid \o <<RInt(sorted[len])>>]

\* Evaluate v before e (keeps the evaluation of long loops shallow).
Strict(v, e) == IF v = v THEN e ELSE e

\* Infinity in the cost matrix.
Infinity == -1
InfAdd(a, b) == IF a = Infinity \/ b = Infinity THEN Infinity ELSE a + b
InfGe(a, b) == a = Infinity \/ (b # Infinity /\ a >= b)

RECURSIVE Lcm1(_)
Lcm1(k) == IF k <= 1 THEN 1 ELSE LET l == Lcm1(k - 1) IN (l * k) \div GCD(l, k)

\* for (let k = 2; k <= n; k++) if (mat2[j][k] >= ssd + mat2[m-1][k-1]) ...
RECURSIVE JenksK(_, _, _, _, _, _)
JenksK(mats, j, m, ssd, k, n) ==
  IF k > n THEN mats
  ELSE LET cand == InfAdd(ssd, mats.mat2[<<m - 1, k - 1>>])
           upd == IF InfGe(mats.mat2[<<j, k>>], cand)
                  THEN [mat1 |-> [mats.mat1 EXCEPT ![<<j, k>>] = m],
                        mat2 |-> [mats.mat2 EXCEPT ![<<j, k>>] = cand]]
                  ELSE mats
       IN  JenksK(upd, j, m, ssd, k + 1, n)

\* for (let m = j; m >= 2; m--) { w++; sumX += val; ...; ssd = ... }
\* Costs are held multiplied by scale (a multiple of every w) so that
\* the division by w is exact.
RECURSIVE JenksM(_, _, _, _, _, _)
JenksM(st, sorted, j, m, n, scale) ==
  IF m < 2 THEN st
  ELSE LET w == st.w + 1
           val == sorted[m]
           sumX == st.sumX + val
           sumX2 == st.sumX2 + val * val
           ssd == scale * sumX2 - (scale \div w) * sumX * sumX
           next == [mats |-> JenksK(st.mats, j, m, ssd, 2, n), ssd |-> ssd,
                    sumX |-> sumX, sumX2 |-> sumX2, w |-> w]
       IN  Strict(next, JenksM(next, sorted, j, m - 1, n, scale))

\* for (let j = 2; j <= len; j++) { ...; mat1[j][1] = 1; mat2[j][1] = ssd; }
RECURSIVE JenksJ(_, _, _, _, _)
JenksJ(mats, sorted, j, n, scale) ==
  IF j > Len(sorted) THEN mats
  ELSE LET st == JenksM([mats |-> mats, ssd |-> 0, sumX |-> 0, sumX2 |-> 0, w |-> 0],
                        sorted, j, j, n, scale)
           done == [mat1 |-> [st.mats.mat1 EXCEPT ![<<j, 1>>] = 1],
                    mat2 |-> [st.mats.mat2 EXCEPT ![<<j, 1>>] = st.ssd]]
       IN  Strict(done, JenksJ(done, sorted, j + 1, n, scale))

\* for (let i = n; i >= 2; i--) { id = mat1[k][i] - 1; breaks[i-1] = sorted[id]; k = id }
\* mat1[-1] is undefined, so reading mat1[-1][i] raises a TypeError.
RECURSIVE JenksBack(_, _, _, _, _, _)
JenksBack(mat1, sorted, breaks, starts, k, i) ==
  IF i < 2 THEN [threw |-> FALSE, short |-> FALSE, starts |-> starts, breaks |-> breaks]
  ELSE IF k < 0 THEN [threw |-> TRUE, short |-> FALSE, starts |-> starts, breaks |-> breaks]
  ELSE LET id == mat1[<<k, i>>] - 1
           b == IF id >= 0 /\ id < Len(sorted) THEN RInt(sorted[id + 1]) ELSE Undefined
       IN  JenksBack(mat1, sorted, [breaks EXCEPT ![i] = b],
                     [starts EXCEPT ![i] = id], id, i - 1)

\* classifyJenks with the start index (0-based, into the sorted sample) of
\* every class kept next to the breaks; short is the len <= n early return.
JenksRun(values, n) ==
  LET sorted == SortAsc(values)
      len == Len(sorted)
  IN  IF len <= n
      THEN [threw |-> FALSE, short |-> TRUE, starts |-> <<>>,
            breaks |-> <<RInt(sorted[1])>> \o [i \in 1..len |-> RInt(sorted[i])]
                       \o <<RInt(sorted[len])>>]
      ELSE LET idx == (0..len) \X (0..n)
               m0 == [mat1 |-> [p \in idx |-> IF p[1] = 1 /\ p[2] >= 1 THEN 1 ELSE 0],
                      mat2 |-> [p \in idx |-> IF p[1] = 1 /\ p[2] >= 1 THEN 0 ELSE Infinity]]
               mats == JenksJ(m0, sorted, 2, n, Lcm1(len))
               b0 == [i \in 1..(n + 1) |->
                        IF i = n + 1 THEN RInt(sorted[len])
                        ELSE IF i = 1 THEN RInt(sorted[1]) ELSE Undefined]
               s0 == [i \in 1..(n + 1) |-> IF i = n + 1 THEN len ELSE 0]
           IN  JenksBack(mats.mat1, sorted, b0, s0, len, n)

\* What classifyJenks returns: the breaks (or the TypeError).
JenksResult(r) == [threw |-> r.threw, breaks |-> r.breaks]

classifyJenks(values, n) == JenksResult(JenksRun(values, n))

getBreaks(values, method, n) ==
  IF method = "jenks" THEN classifyJenks(values, n)
  ELSE IF method = "equal" THEN classifyEqualInterval(values, n)
  ELSE classifyQuantile(values, n)

(***************************************************************************)
(* Result rows                                                             *)
(* A cell is a value of a result column: a finite number, a non-finite     *)
(* number (NaN / Infinity), null or a string.  Columns are typed by the    *)
(* engine: "val" is numeric, "cat" is text; both may hold null.            *)
(***************************************************************************)
Num(i) == [t |-> "number", n |-> i, s |-> ""]
NaN == [t |-> "nan", n |-> 0, s |-> ""]
Null == [t |-> "null", n |-> 0, s |-> ""]
Str(x) == [t |-> "string", n |-> 0, s |-> x]

\* Number(v): null converts to 0; a non-numeric string and NaN are not finite.
ToNumber(c) ==
  IF c.t = "number" THEN [finite |-> TRUE, n |-> c.n]
  ELSE IF c.t = "null" THEN [finite |-> TRUE, n |-> 0]
  ELSE [finite |-> FALSE, n |-> 0]

\* typeof v === 'number'
IsNumberType(c) == c.t \in {"number", "nan"}

\* String(v)
ToStr(c) ==
  IF c.t = "number" THEN ToString(c.n)
  ELSE IF c.t = "nan" THEN "NaN"
  ELSE IF c.t = "null" THEN "null"
  ELSE c.s

NoCol == "<null>"

\* currentRows.map(r => Number(r[col])).filter(v => isFinite(v))
RECURSIVE FiniteValues(_, _)
FiniteValues(rows, col) ==
  IF rows = <<>> THEN <<>>
  ELSE LET v == ToNumber(Head(rows)[col])
       IN  (IF v.finite THEN <<v.n>> ELSE <<>>) \o FiniteValues(Tail(rows), col)

\* [...new Set(currentRows.map(r => r[col]).filter(v => v != null))]
RECURSIVE UniqueFrom(_, _, _)
UniqueFrom(rows, col, seen) ==
  IF rows = <<>> THEN seen
  ELSE LET v == Head(rows)[col]
       IN  UniqueFrom(Tail(rows), col,
                      IF v.t = "null" \/ \E i \in DOMAIN seen : seen[i] = v
                      THEN seen ELSE Append(seen, v))

UniqueValues(rows, col) == UniqueFrom(rows, col, <<>>)

(***************************************************************************)
(* ATTRIBUTE STYLING -- state and helpers                                  *)
(***************************************************************************)
DEFAULT_STYLE ==
  [mode |-> "single", col |-> NoCol, singleColor |-> "#f0a500", ramp |-> "oranges",
   rampInverted |-> FALSE, method |-> "quantile", nClasses |-> 5, opacity |-> 85]

Modes == {"single", "graduated", "categorical"}

\* toFixed: round to the nearest integer, halves away from zero.
RoundRat(r) ==
  LET q == (2 * Abs(r.num) + r.den) \div (2 * r.den)
  IN  IF r.num < 0 THEN -q ELSE q

\* fmtNum(v).  Reading .toFixed of undefined raises a TypeError.  The text is
\* kept as [unit, digits, scaled]: scaled / 10^digits followed by unit.
fmtNum(v) ==
  IF ~IsDefined(v) THEN [threw |-> TRUE, unit |-> "", digits |-> 0, scaled |-> 0]
  ELSE IF RLe(RInt(1000000), Rat(Abs(v.num), v.den))
  THEN [threw |-> FALSE, unit |-> "M", digits |-> 2,
        scaled |-> RoundRat(Rat(v.num, v.den * 10000))]
  ELSE IF RLe(RInt(1000), Rat(Abs(v.num), v.den))
  THEN [threw |-> FALSE, unit |-> "k", digits |-> 1,
        scaled |-> RoundRat(Rat(v.num, v.den * 100))]
  ELSE IF v.den # 1
  THEN [threw |-> FALSE, unit |-> "", digits |-> 2,
        scaled |-> RoundRat(Rat(v.num * 100, v.den))]
  ELSE [threw |-> FALSE, unit |-> "", digits |-> 0, scaled |-> v.num]

\* The labels of the n class rows: fmtNum(breaks[i]) and fmtNum(breaks[i+1]).
BreakLabels(breaks, n) ==
  [i \in 1..n |-> <<fmtNum(At0(breaks, i - 1)), fmtNum(At0(breaks, i))>>]

LabelsThrew(breaks, n) ==
  \E i \in 1..n : BreakLabels(breaks, n)[i][1].threw \/ BreakLabels(breaks, n)[i][2].threw

\* legendFilterRange: null or [min, max]
NoRange == [set |-> FALSE, min |-> Undefined, max |-> Undefined]
Range(a, b) == [set |-> TRUE, min |-> a, max |-> b]

\* MapLibre filters pushed by setLayerFilter.  The labels of a match are
\* cells: visible.map(String) yields string cells.
NoFilter == [kind |-> "none", col |-> NoCol, min |-> Undefined, max |-> Undefined, list |-> <<>>]
FalseFilter == [kind |-> "false", col |-> NoCol, min |-> Undefined, max |-> Undefined, list |-> <<>>]
RangeFilter(col, a, b) == [kind |-> "range", col |-> col, min |-> a, max |-> b, list |-> <<>>]
MatchFilter(col, labels) ==
  [kind |-> "match", col |-> col, min |-> Undefined, max |-> Undefined, list |-> labels]

\* Paint of the query layers
DefaultPaint ==
  [kind |-> "default", col |-> NoCol, color |-> "", thresholds |-> <<>>, labels |-> <<>>,
   colors |-> <<>>, opacity |-> 0]
NoLayers == [exists |-> FALSE, filter |-> NoFilter, paint |-> DefaultPaint]

\* setLayerFilter: only layers that exist take the filter.
setLayerFilter(layers, f) == IF layers.exists THEN [layers EXCEPT !.filter = f] ELSE layers
SetPaint(layers, p) == IF layers.exists THEN [layers EXCEPT !.paint = p] ELSE layers

\* The interactive legend card (#map-legend) and the closure of its last render.
NoLegend ==
  [kind |-> "none", col |-> NoCol, absMin |-> 0, absMax |-> 0, selMin |-> Undefined,
   selMax |-> Undefined, unique |-> <<>>, breaks |-> <<>>]
BlankLegend == [NoLegend EXCEPT !.kind = "blank"]
SingleLegend == [NoLegend EXCEPT !.kind = "single"]

\* The live preview (#style-legend)
Preview(kind, values, cats, breaks) ==
  [kind |-> kind, values |-> values, cats |-> cats, breaks |-> breaks]
NoPreview == Preview("none", <<>>, <<>>, <<>>)

NoDrag ==
  [handle |-> "none", live |-> FALSE, col |-> NoCol, absMin |-> 0, absMax |-> 0,
   selMin |-> Undefined, selMax |-> Undefined, startX |-> 0, startMin |-> Undefined,
   startMax |-> Undefined]

(***************************************************************************)
(* State                                                                   *)
(***************************************************************************)
VARIABLES
  callValues, callMethod, callN, callResult,  \* one getBreaks call on its own
  rampCall,         \* one resampling of a colour ramp on its own
  currentRows, currentCols, currentGeomCol,   \* current result set
  styleSettings, styleApplied,
  hiddenCategories, legendFilterRange, legendAllValues, legendBreaks,
  panelVisible,     \* #style-panel is displayed
  stylePreview,     \* what renderLegendPreview last put into #style-legend
  queryLayers,      \* the query-* map layers: existence, filter, paint
  legend,           \* #map-legend and the closure of the render that filled it
  drag,             \* the pointer drag in progress on the legend bar, if any
  lastEvent,        \* the handler that ran last and whether it threw
  editorSql,        \* text of the SQL editor, as tokens
  safetyCapInput,   \* value of #safety-cap-input, as characters
  lastSent,         \* the query text last passed to conn.query by runQuery
  clipboard,        \* the link last copied by the Share button (none at first)
  selectedIds,      \* ids of the selected rows
  checkedIds,       \* ids of the rows whose table checkbox is checked
  highlightIds,     \* ids of the features in the selected-src map source
  sortState,
  currentTheme,
  savedTheme,       \* localStorage item sse-theme
  osDark,           \* the OS prefers a dark colour scheme
  themeToggled,     \* the user has clicked the theme toggle (history)
  currentBasemap,
  hasMapData,       \* lastMapData is not null
  lastMapFeatures,  \* the features held by lastMapData
  sourceFeatures,   \* the features in the map's query sources
  styleLoading,     \* a basemap style is loading: map.isStyleLoaded() is false
  inflight,         \* runQuery calls waiting for the engine, in request order
  lastStarted,      \* the runQuery call started last (history)
  filterValues,     \* text of the filter input of each table column
  errorVisible,     \* #error-banner is shown
  queryHistory,     \* the newest entries of queryHistory, newest first
  loadedTablesMeta, \* names of the table registry, in order
  idbTables,        \* names in the IndexedDB store 'tables'
  idbLastQuery,     \* IndexedDB state record 'lastQuery'
  idbPending        \* requests on the 'tables' store not yet completed

callVars == <<callValues, callMethod, callN, callResult, rampCall>>
resultVars == <<currentRows, currentCols, currentGeomCol>>
uiVars == <<currentRows, currentCols, currentGeomCol, styleSettings, styleApplied,
            hiddenCategories, legendFilterRange, legendAllValues, legendBreaks,
            panelVisible, stylePreview, queryLayers, legend, drag, lastEvent>>
sqlVars == <<editorSql, safetyCapInput, lastSent>>
tableVars == <<selectedIds, checkedIds, highlightIds, sortState>>
themeVars == <<currentTheme, savedTheme, osDark, themeToggled, currentBasemap>>
sessionVars == <<loadedTablesMeta, idbTables, idbLastQuery, idbPending>>
mapVars == <<hasMapData, lastMapFeatures, sourceFeatures, styleLoading>>
runVars == <<inflight, lastStarted>>
outVars == <<filterValues, errorVisible, queryHistory>>
appVars ==
  <<sqlVars, clipboard, tableVars, themeVars, mapVars, runVars, outVars, sessionVars>>
vars == <<callValues, callMethod, callN, callResult, rampCall, currentRows, currentCols,
          currentGeomCol, styleSettings, styleApplied, hiddenCategories,
          legendFilterRange, legendAllValues, legendBreaks, panelVisible, stylePreview,
          queryLayers, legend, drag, lastEvent, appVars>>

\* lastEvent: the handler, whether it threw, and clientX of a pointer event.
Event(name, threw) == [name |-> name, threw |-> threw, x |-> 0]
PointerEvent(name, x) == [name |-> name, threw |-> FALSE, x |-> x]

(***************************************************************************)
(* SQL text and the safety cap                                             *)
(* A query text is a sequence of tokens: words, numbers, single quotes and *)
(* line breaks.                                                            *)
(***************************************************************************)
Word(w) == [k |-> "word", s |-> w, n |-> 0]
NumTok(n) == [k |-> "number", s |-> "", n |-> n]
Quote == [k |-> "quote", s |-> "'", n |-> 0]
NewLine == [k |-> "newline", s |-> "", n |-> 0]

\* SELECT * FROM "name" LIMIT 50
TableQuery(name) ==
  <<Word("SELECT"), Word("*"), Word("FROM"), Word(name), Word("LIMIT"), NumTok(50)>>

\* /\bLIMIT\b/i.test(rawSql): some word of the text is LIMIT in any case.
HasLimitWord(sql) ==
  \E i \in DOMAIN sql : sql[i].k = "word" /\ sql[i].s \in {"LIMIT", "limit", "Limit"}

\* parseInt(value): an optional sign and the leading decimal digits; NaN
\* when there is no digit.
Digits == <<"0", "1", "2", "3", "4", "5", "6", "7", "8", "9">>
DigitOf(c) == (CHOOSE d \in DOMAIN Digits : Digits[d] = c) - 1
IsDigit(c) == \E d \in DOMAIN Digits : Digits[d] = c
RECURSIVE ParseDigits(_, _, _)
ParseDigits(chars, i, acc) ==
  IF i > Len(chars) \/ ~IsDigit(chars[i]) THEN acc
  ELSE ParseDigits(chars, i + 1, 10 * acc + DigitOf(chars[i]))
parseInt(chars) ==
  LET neg == chars # <<>> /\ chars[1] = "-"
      from == IF chars # <<>> /\ chars[1] \in {"-", "+"} THEN 2 ELSE 1
  IN  IF from > Len(chars) \/ ~IsDigit(chars[from]) THEN [nan |-> TRUE, n |-> 0]
      ELSE [nan |-> FALSE,
            n |-> IF neg THEN 0 - ParseDigits(chars, from, 0)
                  ELSE ParseDigits(chars, from, 0)]

\* parseInt(...) || 50000
SafetyCap(chars) ==
  IF parseInt(chars).nan \/ parseInt(chars).n = 0 THEN 50000 ELSE parseInt(chars).n

\* cappedSql
CappedSql(rawSql, chars) ==
  IF HasLimitWord(rawSql) THEN rawSql
  ELSE rawSql \o <<NewLine, Word("LIMIT"), NumTok(SafetyCap(chars))>>

\* The engine: a LIMIT clause is a LIMIT word outside a string literal that
\* is followed by a number; the result has at most that many rows.
InLiteral(sql, i) == Cardinality({j \in 1..(i - 1) : sql[j] = Quote}) % 2 = 1
LimitClauses(sql) ==
  {i \in 1..(Len(sql) - 1) :
     /\ sql[i].k = "word" /\ sql[i].s \in {"LIMIT", "limit", "Limit"}
     /\ ~InLiteral(sql, i)
     /\ sql[i + 1].k = "number"}
EngineReturns(sql, rows) ==
  \A i \in LimitClauses(sql) : Len(rows) <= sql[i + 1].n

\* The state object of a link: { sql, style: { ...styleSettings } }
NoLink == [set |-> FALSE, sql |-> <<>>, style |-> DEFAULT_STYLE]
Link(sql, style) == [set |-> TRUE, sql |-> sql, style |-> style]

NoSort == [col |-> NoCol, dir |-> "none"]

\* filterValues = {}: no filter text in any column.
NoFilterValues == [c \in {"val", "cat"} |-> ""]

\* addToHistory(sql, success, ...): the entry is put in front.  The code
\* keeps the newest 20 entries; the model keeps the newest MaxHistory of them.
MaxHistory == 2
addToHistory(history, sql, success) ==
  LET all == <<[sql |-> sql, success |-> success]>> \o history
  IN  SubSeq(all, 1, IF Len(all) < MaxHistory THEN Len(all) ELSE MaxHistory)

\* A runQuery call: the editor text it read when it started and the result
\* the engine has for it.
NoCall ==
  [set |-> FALSE, sql |-> <<>>, res |-> [cols |-> <<>>, geomCol |-> NoCol, rows |-> <<>>]]

\* State after the page has loaded, before any query.
InitUI ==
  /\ editorSql = TableQuery("demo")
  /\ safetyCapInput = <<"5", "0", "0", "0", "0">>
  /\ lastSent = <<>>
  /\ clipboard = NoLink
  /\ selectedIds = {}
  /\ checkedIds = {}
  /\ highlightIds = {}
  /\ sortState = NoSort
  /\ currentTheme = "light"
  /\ savedTheme = "light"
  /\ osDark = FALSE
  /\ themeToggled = FALSE
  /\ currentBasemap = "light"
  /\ hasMapData = FALSE
  /\ lastMapFeatures = <<>>
  /\ sourceFeatures = <<>>
  /\ styleLoading = FALSE
  /\ inflight = <<>>
  /\ lastStarted = NoCall
  /\ filterValues = NoFilterValues
  /\ errorVisible = FALSE
  /\ queryHistory = <<>>
  /\ loadedTablesMeta = <<"demo">>
  /\ idbTables = {"demo"}
  /\ idbLastQuery = <<>>
  /\ idbPending = <<>>
  /\ currentRows = <<>>
  /\ currentCols = <<>>
  /\ currentGeomCol = NoCol
  /\ styleSettings = DEFAULT_STYLE
  /\ styleApplied = FALSE
  /\ hiddenCategories = {}
  /\ legendFilterRange = NoRange
  /\ legendAllValues = <<>>
  /\ legendBreaks = <<>>
  /\ panelVisible = FALSE
  /\ stylePreview = NoPreview
  /\ queryLayers = NoLayers
  /\ legend = NoLegend
  /\ drag = NoDrag
  /\ lastEvent = Event("init", FALSE)

NotCalled == [called |-> FALSE, threw |-> FALSE, breaks |-> <<>>]

(***************************************************************************)
(* COLOUR RAMPS                                                            *)
(* A colour is the sequence of the six hexadecimal digits after its '#'.   *)
(***************************************************************************)
COLOR_RAMPS ==
  "oranges" :> <<<<"f", "f", "f", "3", "e", "0">>,
               <<"f", "f", "c", "c", "8", "0">>,
               <<"f", "f", "a", "7", "2", "6">>,
               <<"f", "5", "7", "c", "0", "0">>,
               <<"b", "f", "3", "6", "0", "c">>>> @@
  "reds" :> <<<<"f", "f", "e", "b", "e", "e">>,
            <<"e", "f", "9", "a", "9", "a">>,
            <<"e", "5", "3", "9", "3", "5">>,
            <<"c", "6", "2", "8", "2", "8">>,
            <<"7", "f", "0", "0", "0", "0">>>> @@
  "blues" :> <<<<"e", "3", "f", "2", "f", "d">>,
             <<"9", "0", "c", "a", "f", "9">>,
             <<"1", "e", "8", "8", "e", "5">>,
             <<"1", "5", "6", "5", "c", "0">>,
             <<"0", "d", "2", "d", "6", "b">>>> @@
  "greens" :> <<<<"e", "8", "f", "5", "e", "9">>,
              <<"a", "5", "d", "6", "a", "7">>,
              <<"4", "3", "a", "0", "4", "7">>,
              <<"2", "e", "7", "d", "3", "2">>,
              <<"0", "a", "3", "d", "0", "a">>>> @@
  "purples" :> <<<<"f", "3", "e", "5", "f", "5">>,
               <<"c", "e", "9", "3", "d", "8">>,
               <<"8", "e", "2", "4", "a", "a">>,
               <<"6", "a", "1", "b", "9", "a">>,
               <<"2", "e", "0", "0", "4", "0">>>> @@
  "plasma" :> <<<<"0", "d", "0", "8", "8", "7">>,
              <<"7", "2", "0", "1", "a", "8">>,
              <<"b", "d", "3", "7", "8", "6">>,
              <<"e", "d", "7", "9", "5", "3">>,
              <<"f", "0", "f", "9", "2", "1">>>> @@
  "viridis" :> <<<<"4", "4", "0", "1", "5", "4">>,
               <<"3", "1", "6", "8", "8", "e">>,
               <<"2", "1", "9", "1", "8", "c">>,
               <<"3", "5", "b", "7", "7", "9">>,
               <<"f", "d", "e", "7", "2", "5">>>> @@
  "greys" :> <<<<"f", "5", "f", "5", "f", "5">>,
             <<"b", "d", "b", "d", "b", "d">>,
             <<"7", "5", "7", "5", "7", "5">>,
             <<"4", "2", "4", "2", "4", "2">>,
             <<"2", "1", "2", "1", "2", "1">>>> @@
  "rdylgn" :> <<<<"d", "7", "3", "0", "2", "7">>,
              <<"f", "c", "8", "d", "5", "9">>,
              <<"f", "f", "f", "f", "b", "f">>,
              <<"9", "1", "c", "f", "6", "0">>,
              <<"1", "a", "9", "8", "5", "0">>>> @@
  "spectral" :> <<<<"9", "e", "0", "1", "4", "2">>,
                <<"f", "4", "6", "d", "4", "3">>,
                <<"f", "f", "f", "f", "b", "f">>,
                <<"6", "6", "c", "2", "a", "5">>,
                <<"5", "e", "4", "f", "a", "2">>>>

HexDigits ==
  <<"0", "1", "2", "3", "4", "5", "6", "7", "8", "9", "a", "b", "c", "d", "e", "f">>

\* parseInt(h, 16) of two digits
parseHex(h) ==
  LET v(c) == (CHOOSE i \in DOMAIN HexDigits : HexDigits[i] = c) - 1
  IN  16 * v(h[1]) + v(h[2])

\* v.toString(16).padStart(2, '0'), v in 0..255
toHex(v) == <<HexDigits[(v \div 16) + 1], HexDigits[(v % 16) + 1]>>

\* Math.round(a + (b - a) * t) for the fraction t
RoundLerp(a, b, t) == ((2 * (a * t.den + (b - a) * t.num)) + t.den) \div (2 * t.den)

lerpColor(a, b, t) ==
  LET channel(k) == toHex(RoundLerp(parseHex(SubSeq(a, k, k + 1)),
                                    parseHex(SubSeq(b, k, k + 1)), t))
  IN  channel(1) \o channel(3) \o channel(5)

\* Math.floor and Math.ceil of a fraction that is not negative
RFloor(r) == r.num \div r.den
RCeil(r) == (r.num + r.den - 1) \div r.den

\* getRamp(): a copy of the ramp of the settings, reversed when inverted.
getRamp(st) ==
  LET ramp == IF st.ramp \in DOMAIN COLOR_RAMPS THEN COLOR_RAMPS[st.ramp]
              ELSE COLOR_RAMPS["oranges"]
  IN  IF st.rampInverted THEN [i \in DOMAIN ramp |-> ramp[Len(ramp) + 1 - i]] ELSE ramp

\* The stop of index i (from 0) of a ramp stretched to n stops.
RampStop(ramp, n, i) ==
  LET idx == Rat(i * (Len(ramp) - 1), n - 1)
      lo == RFloor(idx)
      hi == IF RCeil(idx) < Len(ramp) - 1 THEN RCeil(idx) ELSE Len(ramp) - 1
  IN  lerpColor(ramp[lo + 1], ramp[hi + 1], RSub(idx, RInt(lo)))

\* Variant: the loop stops one stop early.
interpolateRampToNOneShort(ramp, n) ==
  IF Len(ramp) = n THEN ramp
  ELSE [i \in 1..(n - 1) |-> RampStop(ramp, n, i - 1)]

interpolateRampToN(ramp, n) ==
  IF Len(ramp) = n THEN ramp
  ELSE [i \in 1..n |-> RampStop(ramp, n, i - 1)]

NoRampCall == [ramp |-> "oranges", inverted |-> FALSE, n |-> 5, calls |-> 0, result |-> <<>>]

RECURSIVE SeqsUpTo(_, _)
SeqsUpTo(S, k) ==
  IF k = 0 THEN {<<>>}
  ELSE LET shorter == SeqsUpTo(S, k - 1)
       IN  shorter \cup {Append(s, x) : s \in {t \in shorter : Len(t) = k - 1}, x \in S}

\* The fixed dataset of the natural-breaks property.
FibSample == <<1, 1, 2, 3, 5, 8, 13, 21, 34>>

\* The column 0.1, 0.2, 0.2, 0.5, 0.9, held in tenths.
TenthsSample == <<1, 2, 2, 5, 9>>

\* The uniform sample 1..100, given in descending order.
HundredSample == [i \in 1..100 |-> 101 - i]

Samples ==
  (SeqsUpTo(0..MaxVal, MaxLen) \ {<<>>}) \cup {FibSample, TenthsSample, HundredSample}
ClassCounts == 3..MaxClasses

(***************************************************************************)
(* SpecBreaks: one call of getBreaks on an arbitrary sample                *)
(***************************************************************************)
\* No call of getBreaks on its own.
InitCalls ==
  /\ callValues = <<0>>
  /\ callMethod = "quantile"
  /\ callN = 3
  /\ callResult = NotCalled

InitBreaks ==
  /\ callValues \in Samples
  /\ callMethod \in Methods
  /\ callValues = HundredSample => callMethod # "jenks"
  /\ callN \in ClassCounts
  /\ callResult = NotCalled
  /\ rampCall = NoRampCall
  /\ InitUI

CallGetBreaks ==
  /\ ~callResult.called
  /\ LET r == getBreaks(callValues, callMethod, callN)
     IN  callResult' = [called |-> TRUE, threw |-> r.threw, breaks |-> r.breaks]
  /\ UNCHANGED <<callValues, callMethod, callN, rampCall>>
  /\ UNCHANGED uiVars
  /\ UNCHANGED appVars

NextBreaks == CallGetBreaks

SpecBreaks == InitBreaks /\ [][NextBreaks]_vars

(***************************************************************************)
(* SpecRamp: a ramp of the settings is resampled, and its result again     *)
(***************************************************************************)
RampCounts == 3..9

\* Resamplings of the result of one call.
MaxResamples == 2

InitRamp ==
  /\ rampCall \in {[NoRampCall EXCEPT !.ramp = name, !.inverted = inv, !.n = k] :
                     name \in DOMAIN COLOR_RAMPS, inv \in BOOLEAN, k \in RampCounts}
  /\ InitCalls
  /\ InitUI

RampFrame ==
  /\ UNCHANGED <<callValues, callMethod, callN, callResult>>
  /\ UNCHANGED uiVars
  /\ UNCHANGED appVars

\* interpolateRampToN(getRamp(), n)
CallInterpolate ==
  /\ rampCall.calls = 0
  /\ rampCall' =
       [rampCall EXCEPT
          !.calls = 1,
          !.result = interpolateRampToN(
                       getRamp([DEFAULT_STYLE EXCEPT !.ramp = rampCall.ramp,
                                                     !.rampInverted = rampCall.inverted]),
                       rampCall.n)]
  /\ RampFrame

\* interpolateRampToN(result, n) on the result of a call
CallResample ==
  /\ rampCall.calls \in 1..MaxResamples
  /\ rampCall' = [rampCall EXCEPT !.calls = @ + 1,
                                   !.result = interpolateRampToN(rampCall.result, rampCall.n)]
  /\ RampFrame

NextRamp == CallInterpolate \/ CallResample

SpecRamp == InitRamp /\ [][NextRamp]_vars

(***************************************************************************)
(* Inputs of the interface model                                           *)
(***************************************************************************)
MaxRows == 2         \* rows of a query result
BarWidth == 100      \* rect.width of the legend's gradient bar, in pixels
PointerXs == {-10, 80, 90}    \* clientX of pointer events (rect.left = 0)
RampNames == {"oranges", "viridis"}
Opacities == {85, 40}

\* The table the queries select from: a numeric column with a NULL, a text
\* column with a repeated value, and a geometry column with a NULL (geom is
\* TRUE where the cell holds a geometry).
RowTable ==
  <<[val |-> Num(0), cat |-> Str("a"), geom |-> TRUE],
    [val |-> Num(100), cat |-> Str("b"), geom |-> TRUE],
    [val |-> Null, cat |-> Str("a"), geom |-> FALSE]>>

\* The rows of RowTable at the positions I, in table order.
RowsAt(I) ==
  LET F[k \in 0..Len(RowTable)] ==
        IF k = 0 THEN <<>>
        ELSE IF k \in I THEN Append(F[k - 1], RowTable[k]) ELSE F[k - 1]
  IN  F[Len(RowTable)]

RowSeqs ==
  {RowsAt(I) : I \in {J \in SUBSET (1..Len(RowTable)) : Cardinality(J) <= MaxRows}}

Layouts ==
  {[cols |-> <<"geom", "val", "cat">>, geomCol |-> "geom"],
   [cols |-> <<"cat", "val", "geom">>, geomCol |-> "geom"],
   [cols |-> <<"val", "cat">>, geomCol |-> NoCol]}

QueryResults ==
  {[cols |-> l.cols, geomCol |-> l.geomCol, rows |-> rs] :
     l \in Layouts, rs \in RowSeqs}

(***************************************************************************)
(* LEGEND PREVIEW (live, before Apply)                                     *)
(***************************************************************************)
\* Options of #style-col-select: only non-geometry, non-id columns.
ColumnOptions(cols, geomCol) == SelectSeq(cols, LAMBDA c : c # geomCol /\ c # "__id")

\* The style panel's legend lists this many categories at most.
TopCategories == 20

\* First k elements: unique.slice(0, k)
Slice(sq, k) == SubSeq(sq, 1, IF Len(sq) < k THEN Len(sq) ELSE k)

\* renderGraduatedLegend once getBreaks has returned r: the labels of the
\* n class rows are formatted, then the container is filled.
GraduatedPreview(values, r, n) ==
  IF r.threw \/ LabelsThrew(r.breaks, n)
  THEN [threw |-> TRUE, preview |-> NoPreview]
  ELSE [threw |-> FALSE, preview |-> Preview("graduated", values, <<>>, r.breaks)]

GraduatedPreviewOf(values, st) ==
  IF values = <<>> THEN [threw |-> FALSE, preview |-> NoPreview]
  ELSE GraduatedPreview(values, getBreaks(values, st.method, st.nClasses), st.nClasses)

renderGraduatedLegend(rows, col, st) == GraduatedPreviewOf(FiniteValues(rows, col), st)

renderCategoricalLegend(rows, col) ==
  [threw |-> FALSE,
   preview |-> Preview("categorical", <<>>, Slice(UniqueValues(rows, col), TopCategories),
                       <<>>)]

renderLegendPreview(st, rows) ==
  IF st.mode = "single" THEN [threw |-> FALSE, preview |-> Preview("single", <<>>, <<>>, <<>>)]
  ELSE IF st.col = NoCol THEN [threw |-> FALSE, preview |-> NoPreview]
  ELSE IF st.mode = "graduated" THEN renderGraduatedLegend(rows, st.col, st)
  ELSE renderCategoricalLegend(rows, st.col)

(***************************************************************************)
(* QUERY EXECUTION                                                         *)
(***************************************************************************)
\* Variant: the first column of the result, geometry or not.
updateStylePanelFirstColumn(cols, geomCol) ==
  IF cols # <<>> THEN [DEFAULT_STYLE EXCEPT !.col = cols[1]] ELSE DEFAULT_STYLE

\* updateStylePanel(hasGeometry): the settings after the reset and the
\* choice of the first column option.
updateStylePanel(cols, geomCol) ==
  LET opts == ColumnOptions(cols, geomCol)
  IN  IF opts # <<>> THEN [DEFAULT_STYLE EXCEPT !.col = opts[1]] ELSE DEFAULT_STYLE

\* updateMap(): one feature for every row whose geometry cell is not empty,
\* with the row index as __id and the other cells as properties.
Features(rows) ==
  LET F[k \in 0..Len(rows)] ==
        IF k = 0 THEN <<>>
        ELSE IF rows[k].geom THEN Append(F[k - 1], [id |-> k - 1, properties |-> rows[k]])
        ELSE F[k - 1]
  IN  F[Len(rows)]

\* updateMap() for a geometry result, clearMapLayers() otherwise.  An
\* existing source only takes the new data; its layers are left as they are.
LayersAfterQuery(layers, hasGeometry) ==
  IF hasGeometry
  THEN IF layers.exists THEN layers
       ELSE [exists |-> TRUE, filter |-> NoFilter, paint |-> DefaultPaint]
  ELSE NoLayers

\* runQuery() on the editor text sql, from the arrival of the engine's
\* result to the end.
QueryRun(sql, res) ==
  LET hasGeometry == res.geomCol # NoCol
      st == IF hasGeometry THEN updateStylePanel(res.cols, res.geomCol) ELSE DEFAULT_STYLE
  IN  /\ sql # <<>>
      /\ EngineReturns(CappedSql(sql, safetyCapInput), res.rows)
      /\ lastSent' = CappedSql(sql, safetyCapInput)
      /\ selectedIds' = {}
      /\ checkedIds' = {}
      /\ highlightIds' = {}
      /\ sortState' = NoSort
      /\ hasMapData' = (hasMapData \/ (hasGeometry /\ ~styleLoading))
      /\ lastMapFeatures' = IF hasGeometry /\ ~styleLoading THEN Features(res.rows)
                            ELSE lastMapFeatures
      /\ sourceFeatures' = IF ~hasGeometry THEN <<>>
                           ELSE IF styleLoading THEN sourceFeatures
                           ELSE Features(res.rows)
      /\ styleLoading' = styleLoading
      /\ idbLastQuery' = sql
      /\ filterValues' = NoFilterValues
      /\ errorVisible' = FALSE
      /\ queryHistory' = addToHistory(queryHistory, sql, TRUE)
      /\ UNCHANGED <<safetyCapInput, clipboard, themeVars, loadedTablesMeta>>
      /\ currentRows' = res.rows
      /\ currentCols' = res.cols
      /\ currentGeomCol' = res.geomCol
      /\ styleSettings' = st
      /\ styleApplied' = FALSE
      /\ hiddenCategories' = {}
      /\ legendFilterRange' = NoRange
      /\ legendAllValues' = <<>>
      /\ legendBreaks' = <<>>
      /\ legend' = NoLegend
      /\ panelVisible' = hasGeometry
      /\ stylePreview' = IF hasGeometry THEN renderLegendPreview(st, res.rows).preview
                         ELSE stylePreview
      /\ queryLayers' = IF hasGeometry /\ styleLoading THEN queryLayers
                        ELSE LayersAfterQuery(queryLayers, hasGeometry)
      /\ drag' = IF drag.handle = "none" THEN drag ELSE [drag EXCEPT !.live = FALSE]
      /\ lastEvent' = Event("runQuery", FALSE)
      /\ UNCHANGED callVars

\* Click on Run.
RunQuery(res) ==
  /\ QueryRun(editorSql, res)
  /\ UNCHANGED <<editorSql, idbTables, idbPending>>
  /\ UNCHANGED runVars

\* Variant: a rejected query is written to the session store all the same.
QueryRejectedButSaved(sql) ==
  /\ errorVisible' = TRUE
  /\ queryHistory' = addToHistory(queryHistory, sql, FALSE)
  /\ idbLastQuery' = sql
  /\ UNCHANGED filterValues

\* runQuery() when conn.query rejects: the catch block.
QueryRejected(sql) ==
  /\ errorVisible' = TRUE
  /\ queryHistory' = addToHistory(queryHistory, sql, FALSE)
  /\ UNCHANGED <<idbLastQuery, filterValues>>

\* Click on Run when the engine rejects the query.
RunQueryRejected ==
  /\ editorSql # <<>>
  /\ lastSent' = CappedSql(editorSql, safetyCapInput)
  /\ QueryRejected(editorSql)
  /\ lastEvent' = Event("queryFailed", TRUE)
  /\ UNCHANGED <<currentRows, currentCols, currentGeomCol, styleSettings, styleApplied,
                 hiddenCategories, legendFilterRange, legendAllValues, legendBreaks,
                 panelVisible, stylePreview, queryLayers, legend, drag>>
  /\ UNCHANGED <<editorSql, safetyCapInput, clipboard, tableVars, themeVars, mapVars,
                 runVars, loadedTablesMeta, idbTables, idbPending>>
  /\ UNCHANGED callVars

(* -- runQuery calls that overlap -- *)
\* The engine answers the requests of one connection in the order it got
\* them.  A call waits for the answer to its query (stage "query") and, when
\* the result has a geometry column, for the answer to the ST_AsGeoJSON
\* query it sends next (stage "geojson").
MaxInflight == 2

\* What the start of a call and an answer that does not end it leave alone.
InflightFrame ==
  /\ UNCHANGED <<currentRows, currentCols, currentGeomCol, styleSettings, styleApplied,
                 hiddenCategories, legendFilterRange, legendAllValues, legendBreaks,
                 panelVisible, stylePreview, queryLayers, legend, drag>>
  /\ UNCHANGED <<safetyCapInput, lastSent, clipboard, tableVars, themeVars, mapVars,
                 filterValues, queryHistory, sessionVars>>
  /\ UNCHANGED callVars

\* runQuery() on the editor text sql, up to its first await: the query is
\* sent to the engine, which will answer res.
QueryStarted(sql, res) ==
  /\ sql # <<>>
  /\ Len(inflight) < MaxInflight
  /\ EngineReturns(CappedSql(sql, safetyCapInput), res.rows)
  /\ inflight' = Append(inflight, [sql |-> sql, res |-> res, stage |-> "query"])
  /\ lastStarted' = [set |-> TRUE, sql |-> sql, res |-> res]
  /\ errorVisible' = FALSE
  /\ InflightFrame

\* Ctrl+Enter or a click on Run.
StartQuery(res) ==
  /\ QueryStarted(editorSql, res)
  /\ lastEvent' = Event("ctrlEnter", FALSE)
  /\ UNCHANGED editorSql

\* setEditorAndRun(name), for a file that was dropped or a click on the
\* query button of the registry.
SetEditorAndRun(name, res) ==
  /\ QueryStarted(TableQuery(name), res)
  /\ lastEvent' = Event("setEditorAndRun", FALSE)
  /\ editorSql' = TableQuery(name)

\* The answer to the first query of a geometry result is followed by the
\* ST_AsGeoJSON query; every other answer ends the call.
AnswerEnds(c) == c.stage = "geojson" \/ c.res.geomCol = NoCol

\* The engine answers its oldest request: the call goes on, from the await
\* to the next await or to its end.
EngineAnswers ==
  /\ inflight # <<>>
  /\ IF AnswerEnds(Head(inflight))
     THEN /\ QueryRun(Head(inflight).sql, Head(inflight).res)
          /\ inflight' = Tail(inflight)
          /\ UNCHANGED <<editorSql, idbTables, idbPending, lastStarted>>
     ELSE /\ inflight' = Append(Tail(inflight), [Head(inflight) EXCEPT !.stage = "geojson"])
          /\ lastEvent' = Event("geojsonQuery", FALSE)
          /\ UNCHANGED <<editorSql, lastStarted, errorVisible>>
          /\ InflightFrame

(***************************************************************************)
(* STYLE PANEL                                                             *)
(***************************************************************************)
\* A control of the panel changes one setting and re-renders the preview.
StyleEditWith(st, p) ==
  /\ panelVisible
  /\ drag.handle = "none"
  /\ styleSettings' = st
  /\ stylePreview' = p.preview
  /\ lastEvent' = Event("style", p.threw)
  /\ UNCHANGED <<currentRows, currentCols, currentGeomCol, styleApplied, hiddenCategories,
                 legendFilterRange, legendAllValues, legendBreaks, panelVisible,
                 queryLayers, legend, drag>>
  /\ UNCHANGED callVars
  /\ UNCHANGED appVars

StyleEdit(st) == StyleEditWith(st, renderLegendPreview(st, currentRows))

SetMode(m) == StyleEdit([styleSettings EXCEPT !.mode = m])
SetColumn(c) ==
  /\ \E i \in DOMAIN ColumnOptions(currentCols, currentGeomCol) :
        ColumnOptions(currentCols, currentGeomCol)[i] = c
  /\ StyleEdit([styleSettings EXCEPT !.col = c])
SetMethod(m) == StyleEdit([styleSettings EXCEPT !.method = m])
SetClassCount(k) == StyleEdit([styleSettings EXCEPT !.nClasses = k])
SelectRamp(name) == StyleEdit([styleSettings EXCEPT !.ramp = name])
InvertRamp == StyleEdit([styleSettings EXCEPT !.rampInverted = ~styleSettings.rampInverted])

\* The opacity slider does not re-render the preview.
SetOpacity(o) ==
  /\ panelVisible
  /\ drag.handle = "none"
  /\ styleSettings' = [styleSettings EXCEPT !.opacity = o]
  /\ lastEvent' = Event("style", FALSE)
  /\ UNCHANGED <<currentRows, currentCols, currentGeomCol, styleApplied, hiddenCategories,
                 legendFilterRange, legendAllValues, legendBreaks, panelVisible,
                 stylePreview, queryLayers, legend, drag>>
  /\ UNCHANGED callVars
  /\ UNCHANGED appVars

(***************************************************************************)
(* APPLY STYLE TO MAP                                                      *)
(***************************************************************************)
\* isNumeric: the first row whose value is not null holds a number.
IsNumericColumn(rows, col) ==
  \E i \in DOMAIN rows :
    /\ rows[i][col].t # "null"
    /\ \A j \in 1..(i - 1) : rows[j][col].t = "null"
    /\ IsNumberType(rows[i][col])

SinglePaint(st) ==
  [kind |-> "single", col |-> NoCol, color |-> st.singleColor, thresholds |-> <<>>,
   labels |-> <<>>, colors |-> <<>>, opacity |-> st.opacity]

\* Variant: the thresholds start at breaks[0].
StepPaintFromFirstBreak(col, breaks, st) ==
  LET ramp == interpolateRampToN(getRamp(st), st.nClasses)
  IN  [kind |-> "step", col |-> col, color |-> "",
       thresholds |-> [i \in 1..(st.nClasses - 1) |-> At0(breaks, i - 1)],
       labels |-> <<>>, colors |-> [i \in 1..st.nClasses |-> At0(ramp, i - 1)],
       opacity |-> st.opacity]

\* ['step', ['get', col], ramp[0], breaks[1], ramp[1], ..., breaks[n-1], ramp[n-1]]
\* colors holds ramp[0], ..., ramp[n-1].
StepPaint(col, breaks, st) ==
  LET ramp == interpolateRampToN(getRamp(st), st.nClasses)
  IN  [kind |-> "step", col |-> col, color |-> "",
       thresholds |-> [i \in 1..(st.nClasses - 1) |-> At0(breaks, i)],
       labels |-> <<>>, colors |-> [i \in 1..st.nClasses |-> At0(ramp, i - 1)],
       opacity |-> st.opacity]

\* The output of a step expression for the input v, counted from 0: the
\* number of thresholds that are not above v.
StepClass(paint, v) ==
  Cardinality({i \in DOMAIN paint.thresholds : RLe(paint.thresholds[i], v)})

\* The colour a step expression gives the input v.
StepColor(paint, v) == paint.colors[StepClass(paint, v) + 1]

CATEGORICAL_PALETTE ==
  <<"#e8323c", "#f0a500", "#3ddc84", "#42a5f5", "#ab47bc",
    "#ff7043", "#26c6da", "#d4e157", "#ec407a", "#8d6e63",
    "#607d8b", "#66bb6a", "#ffa726", "#26a69a", "#7e57c2">>

\* CATEGORICAL_PALETTE[i % CATEGORICAL_PALETTE.length], i counted from 0
PaletteColor(i) == CATEGORICAL_PALETTE[(i % Len(CATEGORICAL_PALETTE)) + 1]

\* ['match', ['get', col], String(v1), c1, ..., '#aaaaaa']: color is the
\* fallback of the expression.
MatchPaint(col, unique, st) ==
  [kind |-> "match", col |-> col, color |-> "#aaaaaa", thresholds |-> <<>>,
   labels |-> [i \in 1..Len(unique) |-> Str(ToStr(unique[i]))],
   colors |-> [i \in 1..Len(unique) |-> PaletteColor(i - 1)], opacity |-> st.opacity]

\* The colour the match expression gives a feature whose property is the
\* cell v: the output of the first label equal to it, else the fallback.
MatchColor(paint, v) ==
  IF \E i \in DOMAIN paint.labels : paint.labels[i] = v
  THEN paint.colors[CHOOSE i \in DOMAIN paint.labels :
                      /\ paint.labels[i] = v
                      /\ \A j \in 1..(i - 1) : paint.labels[j] # v]
  ELSE paint.color

\* What a style function leaves behind: legendAllValues, legendBreaks, the
\* layers, and whether it threw.
Styled(threw, allValues, breaks, layers) ==
  [threw |-> threw, allValues |-> allValues, breaks |-> breaks, layers |-> layers]

\* applyGraduatedStyle once getBreaks has returned r.
GraduatedStyled(values, r, col, st, layers, allValues, breaks) ==
  IF r.threw THEN Styled(TRUE, allValues, breaks, layers)
  ELSE Styled(FALSE, SortAsc(values), r.breaks, SetPaint(layers, StepPaint(col, r.breaks, st)))

GraduatedStyledOf(values, col, st, layers, allValues, breaks) ==
  IF values = <<>> THEN Styled(FALSE, allValues, breaks, layers)
  ELSE GraduatedStyled(values, getBreaks(values, st.method, st.nClasses), col, st, layers,
                       allValues, breaks)

applyGraduatedStyle(rows, col, st, layers, allValues, breaks) ==
  GraduatedStyledOf(FiniteValues(rows, col), col, st, layers, allValues, breaks)

applyCategoricalStyle(rows, col, st, layers) ==
  SetPaint(layers, MatchPaint(col, UniqueValues(rows, col), st))

(***************************************************************************)
(* INTERACTIVE LEGEND (rendered after Apply)                               *)
(***************************************************************************)
CategoricalLegend(rows, col) ==
  [NoLegend EXCEPT !.kind = "categorical", !.col = col, !.unique = UniqueValues(rows, col)]

\* renderGraduatedInteractiveLegend(container, col).  rendered is FALSE when
\* the function returns early or throws before it replaces the container's
\* content; range is legendFilterRange when it ends.
LegendRender(threw, rendered, lg, range) ==
  [threw |-> threw, rendered |-> rendered, legend |-> lg, range |-> range]

\* ... once the breaks b and the selection rng are known.
GraduatedLegend(values, col, n, b, rng, range) ==
  IF b.threw THEN LegendRender(TRUE, FALSE, NoLegend, range)
  ELSE IF fmtNum(rng.min).threw \/ fmtNum(rng.max).threw \/ LabelsThrew(b.breaks, n)
  THEN LegendRender(TRUE, FALSE, NoLegend, rng)
  ELSE LegendRender(FALSE, TRUE,
                    [kind |-> "graduated", col |-> col, absMin |-> values[1],
                     absMax |-> values[Len(values)], selMin |-> rng.min,
                     selMax |-> rng.max, unique |-> <<>>, breaks |-> b.breaks],
                    rng)

GraduatedLegendOf(values, col, st, storedBreaks, range) ==
  IF values = <<>> THEN LegendRender(FALSE, FALSE, NoLegend, range)
  ELSE GraduatedLegend(values, col, st.nClasses,
                       IF storedBreaks # <<>>
                       THEN [threw |-> FALSE, breaks |-> storedBreaks]
                       ELSE getBreaks(values, st.method, st.nClasses),
                       IF range.set THEN range
                       ELSE Range(RInt(values[1]), RInt(values[Len(values)])),
                       range)

renderGraduatedInteractiveLegend(rows, col, st, allValues, storedBreaks, range) ==
  GraduatedLegendOf(IF allValues # <<>> THEN allValues ELSE SortAsc(FiniteValues(rows, col)),
                    col, st, storedBreaks, range)

\* What applyStyle leaves behind and whether it threw.
Applied(threw, range, allValues, breaks, layers, lg) ==
  [threw |-> threw, range |-> range, allValues |-> allValues, breaks |-> breaks,
   layers |-> layers, legend |-> lg]

\* renderInteractiveLegend() in graduated mode, after the style function.
AppliedGraduated(g, l) ==
  Applied(l.threw, l.range, g.allValues, g.breaks, g.layers,
          IF l.rendered THEN l.legend ELSE BlankLegend)

\* applyStyle() after the style function returned g (or threw).
AppliedStyled(g, st, rows, layers1, allValues0, breaks0, legend0) ==
  IF g.threw THEN Applied(TRUE, NoRange, allValues0, breaks0, layers1, legend0)
  ELSE IF st.mode = "graduated"
  THEN AppliedGraduated(g, renderGraduatedInteractiveLegend(rows, st.col, st, g.allValues,
                                                            g.breaks, NoRange))
  ELSE Applied(FALSE, NoRange, g.allValues, g.breaks, g.layers,
               CategoricalLegend(rows, st.col))

\* applyStyle() after setLayerFilter(null).
AppliedOn(layers1, st, rows, allValues0, breaks0, legend0) ==
  IF st.mode = "single"
  THEN Applied(FALSE, NoRange, allValues0, breaks0, SetPaint(layers1, SinglePaint(st)),
               SingleLegend)
  ELSE IF st.col = NoCol
  THEN Applied(FALSE, NoRange, allValues0, breaks0, layers1, legend0)
  ELSE AppliedStyled(IF st.mode = "graduated" /\ IsNumericColumn(rows, st.col)
                     THEN applyGraduatedStyle(rows, st.col, st, layers1, allValues0, breaks0)
                     ELSE Styled(FALSE, allValues0, breaks0,
                                 applyCategoricalStyle(rows, st.col, st, layers1)),
                     st, rows, layers1, allValues0, breaks0, legend0)

\* applyStyle(): the globals it leaves behind and whether it threw.
applyStyle(st, rows, layers0, allValues0, breaks0, legend0) ==
  AppliedOn(setLayerFilter(layers0, NoFilter), st, rows, allValues0, breaks0, legend0)

\* Click on Apply.
ApplyStyleWith(r) ==
  /\ panelVisible
  /\ drag.handle = "none"
  /\ styleApplied' = TRUE
  /\ hiddenCategories' = {}
  /\ legendFilterRange' = r.range
  /\ legendAllValues' = r.allValues
  /\ legendBreaks' = r.breaks
  /\ queryLayers' = r.layers
  /\ legend' = r.legend
  /\ lastEvent' = Event("apply", r.threw)
  /\ UNCHANGED <<currentRows, currentCols, currentGeomCol, styleSettings, panelVisible,
                 stylePreview, drag>>
  /\ UNCHANGED <<sqlVars, clipboard, tableVars, themeVars, mapVars, runVars,
                 outVars, sessionVars>>
  /\ UNCHANGED callVars

ApplyStyle ==
  ApplyStyleWith(applyStyle(styleSettings, currentRows, queryLayers, legendAllValues,
                            legendBreaks, legend))

\* Click on the dismiss button of the legend card.
DismissLegend ==
  /\ legend.kind # "none"
  /\ drag.handle = "none"
  /\ legend' = NoLegend
  /\ lastEvent' = Event("dismiss", FALSE)
  /\ UNCHANGED <<currentRows, currentCols, currentGeomCol, styleSettings, styleApplied,
                 hiddenCategories, legendFilterRange, legendAllValues, legendBreaks,
                 panelVisible, stylePreview, queryLayers, drag>>
  /\ UNCHANGED callVars
  /\ UNCHANGED appVars

(* -- Categorical: click-to-toggle rows -- *)
applyCategoricalFilter(layers, col, unique, hidden) ==
  LET visible == SelectSeq(unique, LAMBDA v : v \notin hidden)
  IN  IF Len(visible) = Len(unique) THEN setLayerFilter(layers, NoFilter)
      ELSE IF Len(visible) = 0 THEN setLayerFilter(layers, FalseFilter)
      ELSE setLayerFilter(layers,
             MatchFilter(col, [i \in 1..Len(visible) |-> Str(ToStr(visible[i]))]))

\* Variant: a click only ever hides.
ToggleHiddenOnlyAdds(hidden, v) == hidden \cup {v}

\* hiddenCategories.has(val) ? delete(val) : add(val)
ToggleHidden(hidden, v) == IF v \in hidden THEN hidden \ {v} ELSE hidden \cup {v}

\* Click on the row of category v.
ToggleCategory(v) ==
  /\ legend.kind = "categorical"
  /\ drag.handle = "none"
  /\ \E i \in DOMAIN legend.unique : legend.unique[i] = v
  /\ hiddenCategories' = ToggleHidden(hiddenCategories, v)
  /\ queryLayers' = applyCategoricalFilter(queryLayers, legend.col, legend.unique,
                                           ToggleHidden(hiddenCategories, v))
  /\ legend' = CategoricalLegend(currentRows, legend.col)
  /\ lastEvent' = Event("toggle", FALSE)
  /\ UNCHANGED <<currentRows, currentCols, currentGeomCol, styleSettings, styleApplied,
                 legendFilterRange, legendAllValues, legendBreaks, panelVisible,
                 stylePreview, drag>>
  /\ UNCHANGED callVars
  /\ UNCHANGED appVars

\* Click on Reset of the categorical legend.
ResetCategories ==
  /\ legend.kind = "categorical"
  /\ drag.handle = "none"
  /\ hiddenCategories' = {}
  /\ queryLayers' = setLayerFilter(queryLayers, NoFilter)
  /\ legend' = CategoricalLegend(currentRows, legend.col)
  /\ lastEvent' = Event("resetCategories", FALSE)
  /\ UNCHANGED <<currentRows, currentCols, currentGeomCol, styleSettings, styleApplied,
                 legendFilterRange, legendAllValues, legendBreaks, panelVisible,
                 stylePreview, drag>>
  /\ UNCHANGED callVars
  /\ UNCHANGED appVars

(* -- Graduated: draggable range -- *)
\* Variant: Reset Filter also drops the stored breaks.
ResetFilterWithBreaksDropped(full, l) ==
  /\ legend.kind = "graduated"
  /\ drag.handle = "none"
  /\ legendFilterRange' = l.range
  /\ queryLayers' = setLayerFilter(queryLayers, NoFilter)
  /\ legend' = IF l.rendered THEN l.legend
               ELSE [legend EXCEPT !.selMin = full.min, !.selMax = full.max]
  /\ legendBreaks' = <<>>
  /\ lastEvent' = Event("resetFilter", l.threw)
  /\ UNCHANGED <<currentRows, currentCols, currentGeomCol, styleSettings, styleApplied,
                 hiddenCategories, legendAllValues, panelVisible, stylePreview, drag>>
  /\ UNCHANGED callVars
  /\ UNCHANGED appVars

\* Click on Reset Filter.  When the re-render does not replace the card's
\* content the old legend stays, its closure holding the reset selection.
ResetFilterWith(full, l) ==
  /\ legend.kind = "graduated"
  /\ drag.handle = "none"
  /\ legendFilterRange' = l.range
  /\ queryLayers' = setLayerFilter(queryLayers, NoFilter)
  /\ legend' = IF l.rendered THEN l.legend
               ELSE [legend EXCEPT !.selMin = full.min, !.selMax = full.max]
  /\ lastEvent' = Event("resetFilter", l.threw)
  /\ UNCHANGED <<currentRows, currentCols, currentGeomCol, styleSettings, styleApplied,
                 hiddenCategories, legendAllValues, legendBreaks, panelVisible,
                 stylePreview, drag>>
  /\ UNCHANGED callVars
  /\ UNCHANGED appVars

ResetFilterTo(full) ==
  ResetFilterWith(full, renderGraduatedInteractiveLegend(currentRows, legend.col,
                                                         styleSettings, legendAllValues,
                                                         legendBreaks, full))

ResetFilter == ResetFilterTo(Range(RInt(legend.absMin), RInt(legend.absMax)))

\* valueToPercent(val, min, max)
valueToPercent(val, min, max) ==
  IF max = min THEN RInt(0)
  ELSE RMax(RInt(0), RMin(RInt(100),
            RMul(Rat(val.num - min * val.den, val.den * (max - min)), RInt(100))))

\* mousedown on a handle (makeDragHandler) or on the selection window.
MouseDown(handle, x) ==
  /\ legend.kind = "graduated"
  /\ drag.handle = "none"
  /\ handle = "pan" =>
       /\ x >= 0 /\ x <= BarWidth
       /\ RLe(valueToPercent(legend.selMin, legend.absMin, legend.absMax), Rat(100 * x, BarWidth))
       /\ RLe(Rat(100 * x, BarWidth), valueToPercent(legend.selMax, legend.absMin, legend.absMax))
  /\ drag' = [handle |-> handle, live |-> TRUE, col |-> legend.col,
              absMin |-> legend.absMin, absMax |-> legend.absMax,
              selMin |-> legend.selMin, selMax |-> legend.selMax,
              startX |-> IF handle = "pan" THEN x ELSE 0,
              startMin |-> IF handle = "pan" THEN legend.selMin ELSE Undefined,
              startMax |-> IF handle = "pan" THEN legend.selMax ELSE Undefined]
  /\ lastEvent' = PointerEvent("mousedown", x)
  /\ UNCHANGED <<currentRows, currentCols, currentGeomCol, styleSettings, styleApplied,
                 hiddenCategories, legendFilterRange, legendAllValues, legendBreaks,
                 panelVisible, stylePreview, queryLayers, legend>>
  /\ UNCHANGED callVars
  /\ UNCHANGED appVars

\* pct = Math.max(0, Math.min(1, (ev.clientX - rect.left) / rect.width))
PointerPct(x) == RMax(RInt(0), RMin(RInt(1), Rat(x, BarWidth)))

\* Variant: the handle follows the pointer without the 1% gap.
HandleMoveUnclamped(d, x) ==
  LET val == RAdd(RInt(d.absMin), RMul(PointerPct(x), RInt(d.absMax - d.absMin)))
  IN  IF d.handle = "min" THEN [min |-> val, max |-> d.selMax]
      ELSE [min |-> d.selMin, max |-> val]

\* onMove of makeDragHandler(isMin): the selection after the move.
HandleMove(d, x) ==
  LET range == d.absMax - d.absMin
      val == RAdd(RInt(d.absMin), RMul(PointerPct(x), RInt(range)))
      eps == Rat(range, 100)
  IN  IF d.handle = "min"
      THEN [min |-> RMin(val, RSub(d.selMax, eps)), max |-> d.selMax]
      ELSE [min |-> d.selMin, max |-> RMax(val, RAdd(d.selMin, eps))]

\* Variant: the window follows the pointer past the ends of the bar.
PanMoveFree(d, x) ==
  LET dx == Rat((x - d.startX) * (d.absMax - d.absMin), BarWidth)
  IN  [min |-> RAdd(d.startMin, dx), max |-> RAdd(d.startMax, dx)]

\* Variant: each bound stops at its own end of the bar.
PanMoveSqueezed(d, x) ==
  LET dx == Rat((x - d.startX) * (d.absMax - d.absMin), BarWidth)
  IN  [min |-> RMax(RInt(d.absMin), RMin(RInt(d.absMax), RAdd(d.startMin, dx))),
       max |-> RMax(RInt(d.absMin), RMin(RInt(d.absMax), RAdd(d.startMax, dx)))]

\* onMove of the selection window.
PanMove(d, x) ==
  LET range == d.absMax - d.absMin
      width == RSub(d.startMax, d.startMin)
      dx == Rat((x - d.startX) * range, BarWidth)
      a == [min |-> RAdd(d.startMin, dx), max |-> RAdd(d.startMax, dx)]
      b == IF RLt(a.min, RInt(d.absMin))
           THEN [min |-> RInt(d.absMin), max |-> RAdd(RInt(d.absMin), width)] ELSE a
  IN  IF RLt(RInt(d.absMax), b.max)
      THEN [min |-> RSub(RInt(d.absMax), width), max |-> RInt(d.absMax)] ELSE b

\* Variant: a move only redraws the bar; the layers are not filtered.
MouseMoveToBarOnly(x, sel) ==
  /\ drag.handle # "none"
  /\ drag' = [drag EXCEPT !.selMin = sel.min, !.selMax = sel.max]
  /\ legendFilterRange' = Range(sel.min, sel.max)
  /\ legend' = IF drag.live THEN [legend EXCEPT !.selMin = sel.min, !.selMax = sel.max]
               ELSE legend
  /\ lastEvent' = PointerEvent("mousemove", x)
  /\ UNCHANGED <<currentRows, currentCols, currentGeomCol, styleSettings, styleApplied,
                 hiddenCategories, legendAllValues, legendBreaks, panelVisible, stylePreview,
                 queryLayers>>
  /\ UNCHANGED callVars
  /\ UNCHANGED appVars

\* mousemove while a drag is in progress.
MouseMoveTo(x, sel) ==
  /\ drag.handle # "none"
  /\ drag' = [drag EXCEPT !.selMin = sel.min, !.selMax = sel.max]
  /\ legendFilterRange' = Range(sel.min, sel.max)
  /\ legend' = IF drag.live THEN [legend EXCEPT !.selMin = sel.min, !.selMax = sel.max]
               ELSE legend
  /\ queryLayers' = setLayerFilter(queryLayers, RangeFilter(drag.col, sel.min, sel.max))
  /\ lastEvent' = PointerEvent("mousemove", x)
  /\ UNCHANGED <<currentRows, currentCols, currentGeomCol, styleSettings, styleApplied,
                 hiddenCategories, legendAllValues, legendBreaks, panelVisible, stylePreview>>
  /\ UNCHANGED callVars
  /\ UNCHANGED appVars

MouseMove(x) ==
  MouseMoveTo(x, IF drag.handle = "pan" THEN PanMove(drag, x) ELSE HandleMove(drag, x))

\* mouseup ends the drag.
MouseUp ==
  /\ drag.handle # "none"
  /\ drag' = NoDrag
  /\ lastEvent' = Event("mouseup", FALSE)
  /\ UNCHANGED <<currentRows, currentCols, currentGeomCol, styleSettings, styleApplied,
                 hiddenCategories, legendFilterRange, legendAllValues, legendBreaks,
                 panelVisible, stylePreview, queryLayers, legend>>
  /\ UNCHANGED callVars
  /\ UNCHANGED appVars

\* Requests on the store that may be in flight together.
MaxPending == 2

(***************************************************************************)
(* RESULTS TABLE: SELECTION AND SORTING                                    *)
(* The table shows all rows (no column filter is typed).                   *)
(***************************************************************************)
\* __id of the rows: 0 .. length - 1
RowIds(rows) == 0..(Len(rows) - 1)

\* getFilteredSortedRows(): the rows the table shows.  A row passes the
\* filter text of a column when its cell is not null and String(cell), in
\* lower case, includes the text in lower case.  The cells and the texts
\* here are single lower-case letters, for which includes() is equality.
PassesFilter(cell, text) == text = "" \/ (cell.t # "null" /\ ToStr(cell) = text)
VisibleIds(rows, fv) ==
  {id \in RowIds(rows) : \A c \in DOMAIN fv : PassesFilter(rows[id + 1][c], fv[c])}

\* The rows whose geometry cell is not empty: if (!gv) return
GeomIds(rows) == {id \in RowIds(rows) : rows[id + 1].geom}

\* Variant: every selected row is given a highlight feature.
SelectionSyncedAllRows(sel) ==
  /\ selectedIds' = sel
  /\ highlightIds' = IF queryLayers.exists THEN sel \cap RowIds(currentRows)
                     ELSE highlightIds
  /\ checkedIds' = sel \cap VisibleIds(currentRows, filterValues)

\* syncSelection() after selectedIds has become sel.
SelectionSynced(sel) ==
  /\ selectedIds' = sel
  /\ highlightIds' = IF queryLayers.exists THEN sel \cap GeomIds(currentRows)
                     ELSE highlightIds
  /\ checkedIds' = sel \cap VisibleIds(currentRows, filterValues)

\* A handler of the table or the map that changes only the selection.
SelectionEvent(name, sel) ==
  /\ SelectionSynced(sel)
  /\ lastEvent' = Event(name, FALSE)
  /\ UNCHANGED <<currentRows, currentCols, currentGeomCol, styleSettings, styleApplied,
                 hiddenCategories, legendFilterRange, legendAllValues, legendBreaks,
                 panelVisible, stylePreview, queryLayers, legend, drag>>
  /\ UNCHANGED <<sqlVars, clipboard, sortState, themeVars, mapVars, runVars,
                 outVars, sessionVars>>
  /\ UNCHANGED callVars

\* selectedIds.has(id) ? delete(id) : add(id)
ToggleSelected(sel, id) == IF id \in sel THEN sel \ {id} ELSE sel \cup {id}

\* Click on the feature of row id on the map: selectFeatureFromMap(id).
MapClick(id) ==
  /\ queryLayers.exists
  /\ id \in GeomIds(currentRows)
  /\ SelectionEvent("mapClick", ToggleSelected(selectedIds, id))

\* Click on a table row outside its checkbox.
RowClick(id) ==
  /\ id \in VisibleIds(currentRows, filterValues)
  /\ SelectionEvent("rowClick", ToggleSelected(selectedIds, id))

\* Change of a row's checkbox: the browser has flipped cb.checked.
CheckboxChange(id) ==
  /\ id \in VisibleIds(currentRows, filterValues)
  /\ SelectionEvent("checkbox",
                    IF id \notin checkedIds THEN selectedIds \cup {id}
                    ELSE selectedIds \ {id})

\* Change of the select-all checkbox to checked.
SelectAll(checked) ==
  /\ currentRows # <<>>
  /\ SelectionEvent("selectAll",
                    IF checked THEN selectedIds \cup VisibleIds(currentRows, filterValues)
                    ELSE selectedIds \ VisibleIds(currentRows, filterValues))

\* Variant: a click on the sorted column flips between ascending and
\* descending.
HeaderSortNeverCleared(sort, col) ==
  IF sort.col = col
  THEN [col |-> col, dir |-> IF sort.dir = "asc" THEN "desc" ELSE "asc"]
  ELSE [col |-> col, dir |-> "asc"]

\* The click handler of a column header, on sortState.
HeaderSort(sort, col) ==
  IF sort.col = col
  THEN LET dir == IF sort.dir = "asc" THEN "desc"
                  ELSE IF sort.dir = "desc" THEN "none" ELSE "asc"
       IN  [col |-> IF dir = "none" THEN NoCol ELSE col, dir |-> dir]
  ELSE [col |-> col, dir |-> "asc"]

\* Click on the header of column col; the table body is rendered again.
HeaderClick(col) ==
  /\ currentRows # <<>>
  /\ \E i \in DOMAIN currentCols : currentCols[i] = col /\ col # currentGeomCol
  /\ sortState' = HeaderSort(sortState, col)
  /\ checkedIds' = selectedIds \cap VisibleIds(currentRows, filterValues)
  /\ lastEvent' = Event("sort", FALSE)
  /\ UNCHANGED <<currentRows, currentCols, currentGeomCol, styleSettings, styleApplied,
                 hiddenCategories, legendFilterRange, legendAllValues, legendBreaks,
                 panelVisible, stylePreview, queryLayers, legend, drag>>
  /\ UNCHANGED <<sqlVars, clipboard, selectedIds, highlightIds, themeVars, mapVars, runVars,
                 outVars,
                 sessionVars>>
  /\ UNCHANGED callVars

\* The user types text into the filter input of column col; the table
\* body is rendered again.
TypeFilter(col, text) ==
  /\ currentRows # <<>>
  /\ \E i \in DOMAIN currentCols : currentCols[i] = col /\ col # currentGeomCol
  /\ filterValues' = [filterValues EXCEPT ![col] = text]
  /\ checkedIds' = selectedIds \cap VisibleIds(currentRows, filterValues')
  /\ lastEvent' = Event("filter", FALSE)
  /\ UNCHANGED <<currentRows, currentCols, currentGeomCol, styleSettings, styleApplied,
                 hiddenCategories, legendFilterRange, legendAllValues, legendBreaks,
                 panelVisible, stylePreview, queryLayers, legend, drag>>
  /\ UNCHANGED <<sqlVars, clipboard, selectedIds, highlightIds, sortState, themeVars,
                 mapVars, runVars, errorVisible, queryHistory, sessionVars>>
  /\ UNCHANGED callVars

(***************************************************************************)
(* EDITOR AND SAFETY CAP                                                   *)
(***************************************************************************)
\* The user replaces the text of the editor.
EditSql(q) ==
  /\ editorSql' = q
  /\ lastEvent' = Event("edit", FALSE)
  /\ UNCHANGED <<currentRows, currentCols, currentGeomCol, styleSettings, styleApplied,
                 hiddenCategories, legendFilterRange, legendAllValues, legendBreaks,
                 panelVisible, stylePreview, queryLayers, legend, drag>>
  /\ UNCHANGED <<safetyCapInput, lastSent, clipboard, tableVars, themeVars, mapVars, runVars,
                 outVars,
                 sessionVars>>
  /\ UNCHANGED callVars

\* The user types a value into #safety-cap-input.
SetSafetyCap(chars) ==
  /\ safetyCapInput' = chars
  /\ lastEvent' = Event("cap", FALSE)
  /\ UNCHANGED <<currentRows, currentCols, currentGeomCol, styleSettings, styleApplied,
                 hiddenCategories, legendFilterRange, legendAllValues, legendBreaks,
                 panelVisible, stylePreview, queryLayers, legend, drag>>
  /\ UNCHANGED <<editorSql, lastSent, clipboard, tableVars, themeVars, mapVars, runVars,
                 outVars,
                 sessionVars>>
  /\ UNCHANGED callVars

(***************************************************************************)
(* PAGE LOAD AND SHARE LINKS                                               *)
(***************************************************************************)
\* Click on Share: copyShareURL() puts encodeStateToURL() on the clipboard.
CopyShareURL ==
  /\ clipboard' = Link(editorSql, styleSettings)
  /\ lastEvent' = Event("share", FALSE)
  /\ UNCHANGED <<currentRows, currentCols, currentGeomCol, styleSettings, styleApplied,
                 hiddenCategories, legendFilterRange, legendAllValues, legendBreaks,
                 panelVisible, stylePreview, queryLayers, legend, drag>>
  /\ UNCHANGED <<sqlVars, tableVars, themeVars, mapVars, runVars,
                 outVars, sessionVars>>
  /\ UNCHANGED callVars

\* IndexedDB returns the records of a store in key order.
KeyOrder == <<"a", "b", "demo">>
StoredTables(names) == SelectSeq(KeyOrder, LAMBDA t : t \in names)

\* restoreSession(), then loadDemoData() when nothing was restored.
RestoredRegistry(names) == IF names # {} THEN StoredTables(names) ELSE <<"demo">>

\* init(): URL > lastSql > first table
SqlToRun(link, names, lastSql) ==
  IF link.set /\ link.sql # <<>> THEN link.sql
  ELSE IF names # {} /\ lastSql # <<>> THEN lastSql
  ELSE TableQuery(RestoredRegistry(names)[1])

\* initTheme(): saved || (prefersDark ? 'dark' : 'light')
InitialTheme(saved, prefersDark) ==
  IF saved # "none" THEN saved ELSE IF prefersDark THEN "dark" ELSE "light"

\* The page is loaded with the hash of link (NoLink: no hash), from
\* DOMContentLoaded to the end of init().  The script's globals start from
\* their initial values; localStorage and IndexedDB are what the last page
\* left.  ok: the engine accepts the start-up query and returns res.
PageLoad(name, link, res, ok) ==
  LET hasGeometry == res.geomCol # NoCol
      peeked == IF link.set THEN link.style ELSE DEFAULT_STYLE
      st == IF ~ok THEN peeked
            ELSE IF hasGeometry THEN updateStylePanel(res.cols, res.geomCol)
            ELSE DEFAULT_STYLE
      sql == SqlToRun(link, idbTables, idbLastQuery)
      cap == <<"5", "0", "0", "0", "0">>
  IN  /\ idbPending = <<>>
      /\ ok => EngineReturns(CappedSql(sql, cap), res.rows)
      /\ editorSql' = sql
      /\ safetyCapInput' = cap
      /\ lastSent' = CappedSql(sql, cap)
      /\ currentTheme' = InitialTheme(savedTheme, osDark)
      /\ savedTheme' = InitialTheme(savedTheme, osDark)
      /\ currentBasemap' = "light"
      /\ loadedTablesMeta' = RestoredRegistry(idbTables)
      /\ idbTables' = IF idbTables # {} THEN idbTables ELSE {"demo"}
      /\ idbLastQuery' = IF ok THEN sql ELSE idbLastQuery
      /\ currentRows' = IF ok THEN res.rows ELSE <<>>
      /\ currentCols' = IF ok THEN res.cols ELSE <<>>
      /\ currentGeomCol' = IF ok THEN res.geomCol ELSE NoCol
      /\ styleSettings' = st
      /\ styleApplied' = FALSE
      /\ hiddenCategories' = {}
      /\ legendFilterRange' = NoRange
      /\ legendAllValues' = <<>>
      /\ legendBreaks' = <<>>
      /\ legend' = NoLegend
      /\ panelVisible' = (ok /\ hasGeometry)
      /\ stylePreview' = IF ok /\ hasGeometry THEN renderLegendPreview(st, res.rows).preview
                         ELSE NoPreview
      /\ queryLayers' = LayersAfterQuery(NoLayers, ok /\ hasGeometry)
      /\ hasMapData' = (ok /\ hasGeometry)
      /\ lastMapFeatures' = IF ok /\ hasGeometry THEN Features(res.rows) ELSE <<>>
      /\ sourceFeatures' = IF ok /\ hasGeometry THEN Features(res.rows) ELSE <<>>
      /\ styleLoading' = FALSE
      /\ inflight' = <<>>
      /\ lastStarted' = NoCall
      /\ filterValues' = NoFilterValues
      /\ errorVisible' = ~ok
      /\ queryHistory' = addToHistory(IF idbTables # {} THEN queryHistory ELSE <<>>, sql, ok)
      /\ drag' = NoDrag
      /\ selectedIds' = {}
      /\ checkedIds' = {}
      /\ highlightIds' = {}
      /\ sortState' = NoSort
      /\ lastEvent' = Event(name, ~ok)
      /\ UNCHANGED <<clipboard, osDark, themeToggled, idbPending>>
      /\ UNCHANGED callVars

\* The link on the clipboard is opened in this browser.
OpenLink(res) == clipboard.set /\ PageLoad("openLink", clipboard, res, TRUE)
OpenLinkFails ==
  /\ clipboard.set
  /\ PageLoad("openLink", clipboard, [cols |-> <<>>, geomCol |-> NoCol, rows |-> <<>>], FALSE)

(***************************************************************************)
(* TABLES AND THE SESSION STORE                                            *)
(* idbPending holds the requests on the 'tables' store that were issued    *)
(* and have not completed; IndexedDB completes them in the order of issue. *)
(***************************************************************************)
TableNames == {"a", "b", "demo"}

\* The names of the registry.
RegistryNames(meta) == {meta[i] : i \in DOMAIN meta}

\* finaliseRegistration(): the entry of the name is replaced in place, a
\* new name is pushed.
finaliseRegistration(meta, name) ==
  IF name \in RegistryNames(meta) THEN meta ELSE Append(meta, name)

\* What a handler of the registry leaves alone.
RegistryFrame ==
  /\ UNCHANGED <<currentRows, currentCols, currentGeomCol, styleSettings, styleApplied,
                 hiddenCategories, legendFilterRange, legendAllValues, legendBreaks,
                 panelVisible, stylePreview, queryLayers, legend, drag>>
  /\ UNCHANGED <<sqlVars, clipboard, tableVars, themeVars, mapVars, runVars,
                 filterValues, queryHistory, idbLastQuery>>
  /\ UNCHANGED callVars

\* Variant: a table is registered and never written to the store.
LoadTableNotPersisted(name) ==
  /\ Len(idbPending) < MaxPending
  /\ UNCHANGED errorVisible
  /\ loadedTablesMeta' = finaliseRegistration(loadedTablesMeta, name)
  /\ lastEvent' = Event("load", FALSE)
  /\ UNCHANGED <<idbTables, idbPending>>
  /\ RegistryFrame

\* handleFile() or loadDemoData() for a table called name, up to the issue
\* of idbPut: the engine has the table, the registry has its entry.
LoadTable(name) ==
  /\ Len(idbPending) < MaxPending
  /\ UNCHANGED errorVisible
  /\ loadedTablesMeta' = finaliseRegistration(loadedTablesMeta, name)
  /\ idbPending' = Append(idbPending, [op |-> "put", name |-> name])
  /\ lastEvent' = Event("load", FALSE)
  /\ UNCHANGED idbTables
  /\ RegistryFrame

\* handleFile() for a file the engine rejects: the error is shown.
LoadFails ==
  /\ lastEvent' = Event("load", TRUE)
  /\ errorVisible' = TRUE
  /\ UNCHANGED <<loadedTablesMeta, idbTables, idbPending>>
  /\ RegistryFrame

\* Click on the remove button of table name, up to the issue of idbDelete.
RemoveTable(name) ==
  /\ Len(idbPending) < MaxPending
  /\ name \in RegistryNames(loadedTablesMeta)
  /\ loadedTablesMeta' = SelectSeq(loadedTablesMeta, LAMBDA t : t # name)
  /\ UNCHANGED errorVisible
  /\ idbPending' = Append(idbPending, [op |-> "delete", name |-> name])
  /\ lastEvent' = Event("remove", FALSE)
  /\ UNCHANGED idbTables
  /\ RegistryFrame

\* The store after request req.
StoreAfter(names, req) ==
  IF req.op = "put" THEN names \cup {req.name} ELSE names \ {req.name}

\* What a handler of the registry leaves alone, but for the editor.
RegistryFrameButEditor ==
  /\ UNCHANGED <<currentRows, currentCols, currentGeomCol, styleSettings, styleApplied,
                 hiddenCategories, legendFilterRange, legendAllValues, legendBreaks,
                 panelVisible, stylePreview, queryLayers, legend, drag>>
  /\ UNCHANGED <<safetyCapInput, clipboard, tableVars, themeVars, mapVars, runVars>>
  /\ UNCHANGED callVars

\* The oldest request completes.  After its idbPut a load goes on with
\* setEditorAndRun(name): the engine answers res, or rejects the query when
\* the table was removed in the meantime.  After its idbDelete a removal
\* renders the registry.
IdbCommit(res) ==
  /\ idbPending # <<>>
  /\ UNCHANGED runVars
  /\ idbTables' = StoreAfter(idbTables, Head(idbPending))
  /\ idbPending' = Tail(idbPending)
  /\ IF Head(idbPending).op = "put"
     THEN /\ editorSql' = TableQuery(Head(idbPending).name)
          /\ IF Head(idbPending).name \in RegistryNames(loadedTablesMeta)
             THEN QueryRun(TableQuery(Head(idbPending).name), res)
             ELSE /\ lastEvent' = Event("queryFailed", TRUE)
                  /\ QueryRejected(TableQuery(Head(idbPending).name))
                  /\ lastSent' = CappedSql(TableQuery(Head(idbPending).name), safetyCapInput)
                  /\ UNCHANGED loadedTablesMeta
                  /\ RegistryFrameButEditor
     ELSE /\ lastEvent' = Event("removed", FALSE)
          /\ UNCHANGED <<loadedTablesMeta, errorVisible>>
          /\ RegistryFrame

\* The page is closed and opened again without a hash.
Restart(res) == PageLoad("restart", NoLink, res, TRUE)

(***************************************************************************)
(* THEME AND BASEMAP                                                       *)
(***************************************************************************)
BasemapNames == {"light", "dark", "satellite", "topo"}

\* switchBasemap(): setStyle() drops every source and layer; on style.load
\* the layers are added again from lastMapData and the applied style is
\* applied again.
BasemapSwitched ==
  LET rehydrated == [exists |-> TRUE, filter |-> NoFilter, paint |-> DefaultPaint]
      r == applyStyle(styleSettings, currentRows, rehydrated, legendAllValues,
                      legendBreaks, legend)
  IN  /\ highlightIds' = {}
      /\ sourceFeatures' = IF hasMapData /\ currentGeomCol # NoCol THEN lastMapFeatures
                           ELSE <<>>
      /\ IF hasMapData /\ currentGeomCol # NoCol
         THEN IF styleApplied
              THEN /\ queryLayers' = r.layers
                   /\ hiddenCategories' = {}
                   /\ legendFilterRange' = r.range
                   /\ legendAllValues' = r.allValues
                   /\ legendBreaks' = r.breaks
                   /\ legend' = r.legend
              ELSE /\ queryLayers' = rehydrated
                   /\ UNCHANGED <<hiddenCategories, legendFilterRange, legendAllValues,
                                  legendBreaks, legend>>
         ELSE /\ queryLayers' = NoLayers
              /\ UNCHANGED <<hiddenCategories, legendFilterRange, legendAllValues,
                             legendBreaks, legend>>

\* What the style.load callback leaves alone.
StyleLoadFrame ==
  /\ UNCHANGED <<currentRows, currentCols, currentGeomCol, styleSettings, styleApplied,
                 panelVisible, stylePreview, drag>>
  /\ UNCHANGED <<sqlVars, clipboard, selectedIds, checkedIds, sortState, hasMapData,
                 lastMapFeatures, runVars, outVars, sessionVars>>
  /\ UNCHANGED callVars

\* What a theme or basemap handler leaves alone when the style loads at once.
BasemapFrame ==
  /\ StyleLoadFrame
  /\ UNCHANGED styleLoading

\* applyTheme(theme): the theme is shown and saved, and a light or dark
\* basemap follows it.
applyTheme(theme) ==
  /\ currentTheme' = theme
  /\ savedTheme' = theme
  /\ IF currentBasemap \in {"light", "dark"} /\ currentBasemap # theme
     THEN /\ currentBasemap' = theme
          /\ BasemapSwitched
     ELSE UNCHANGED <<currentBasemap, highlightIds, sourceFeatures, queryLayers,
                      hiddenCategories, legendFilterRange, legendAllValues, legendBreaks,
                      legend>>
  /\ BasemapFrame

\* Click on the theme toggle.
ToggleTheme ==
  /\ drag.handle = "none"
  /\ themeToggled' = TRUE
  /\ osDark' = osDark
  /\ lastEvent' = Event("toggleTheme", FALSE)
  /\ applyTheme(IF currentTheme = "dark" THEN "light" ELSE "dark")

\* The operating system changes its colour scheme: the 'change' listener of
\* prefers-color-scheme.
OsSchemeChange ==
  /\ drag.handle = "none"
  /\ osDark' = ~osDark
  /\ themeToggled' = themeToggled
  /\ lastEvent' = Event("osScheme", FALSE)
  /\ IF savedTheme = "none"
     THEN applyTheme(IF osDark' THEN "dark" ELSE "light")
     ELSE /\ UNCHANGED <<currentTheme, savedTheme, currentBasemap, highlightIds,
                         sourceFeatures, queryLayers, hiddenCategories, legendFilterRange,
                         legendAllValues, legendBreaks, legend>>
          /\ BasemapFrame

\* Click on the pill of basemap name.
SwitchBasemap(name) ==
  /\ drag.handle = "none"
  /\ name # currentBasemap
  /\ currentBasemap' = name
  /\ BasemapSwitched
  /\ lastEvent' = Event("basemap", FALSE)
  /\ UNCHANGED <<currentTheme, savedTheme, osDark, themeToggled>>
  /\ BasemapFrame

\* switchBasemap() up to the return of map.setStyle(): the style that held
\* the sources and layers is dropped and the new one starts to load.
SetStyle(name) ==
  /\ drag.handle = "none"
  /\ ~styleLoading
  /\ name # currentBasemap
  /\ currentBasemap' = name
  /\ styleLoading' = TRUE
  /\ queryLayers' = NoLayers
  /\ sourceFeatures' = <<>>
  /\ highlightIds' = {}
  /\ lastEvent' = Event("setStyle", FALSE)
  /\ UNCHANGED <<hiddenCategories, legendFilterRange, legendAllValues, legendBreaks, legend>>
  /\ UNCHANGED <<currentTheme, savedTheme, osDark, themeToggled>>
  /\ StyleLoadFrame

\* The style.load callback of switchBasemap().
StyleLoad ==
  /\ styleLoading
  /\ styleLoading' = FALSE
  /\ BasemapSwitched
  /\ lastEvent' = Event("styleLoad", FALSE)
  /\ UNCHANGED themeVars
  /\ StyleLoadFrame

\* The page is loaded again without a hash.
Reload(res) == PageLoad("reload", NoLink, res, TRUE)

(***************************************************************************)
(* Spec: the interface                                                     *)
(***************************************************************************)
Init ==
  /\ InitCalls
  /\ rampCall = NoRampCall
  /\ InitUI

Cells == {RowTable[i].val : i \in DOMAIN RowTable} \cup {RowTable[i].cat : i \in DOMAIN RowTable}

\* Spec: queries, the choice of mode and column, Apply and every click and
\* handle drag on the interactive legend.
Next ==
  \/ \E res \in QueryResults : RunQuery(res)
  \/ \E m \in Modes : SetMode(m)
  \/ \E c \in {"val", "cat"} : SetColumn(c)
  \/ ApplyStyle
  \/ DismissLegend
  \/ \E v \in Cells : ToggleCategory(v)
  \/ ResetCategories
  \/ ResetFilter
  \/ \E h \in {"min", "max"} : MouseDown(h, 0)
  \/ \E x \in PointerXs : MouseMove(x)
  \/ MouseUp

Spec == Init /\ [][Next]_vars

\* SpecStyle: queries, every control of the style panel, Apply and the
\* category rows of the interactive legend (no pointer drags).
PanelMethods == {"quantile", "jenks"}
PanelClassCounts == {3, MaxClasses}
StyleResults == {r \in QueryResults : r.rows \in {RowsAt({1, 2}), RowsAt({2, 3})}}

NextStyle ==
  \/ \E res \in StyleResults : RunQuery(res)
  \/ \E m \in Modes : SetMode(m)
  \/ \E c \in {"val", "cat"} : SetColumn(c)
  \/ \E m \in PanelMethods : SetMethod(m)
  \/ \E k \in PanelClassCounts : SetClassCount(k)
  \/ \E name \in RampNames : SelectRamp(name)
  \/ InvertRamp
  \/ \E o \in Opacities : SetOpacity(o)
  \/ ApplyStyle
  \/ \E v \in Cells : ToggleCategory(v)

SpecStyle == Init /\ [][NextStyle]_vars

\* SpecCats: results with many distinct categories, styled and filtered.
MaxCats == 21        \* distinct values of the text column
CatRows(n) == [i \in 1..n |-> [val |-> Num(0), cat |-> Str(ToString(i)), geom |-> TRUE]]
CatResults ==
  {[cols |-> l.cols, geomCol |-> l.geomCol, rows |-> CatRows(n)] :
     l \in Layouts, n \in {TopCategories, MaxCats}}
CatToggles == {Str("1"), Str(ToString(MaxCats))}

NextCats ==
  \/ \E res \in CatResults : RunQuery(res)
  \/ \E m \in Modes : SetMode(m)
  \/ \E c \in {"val", "cat"} : SetColumn(c)
  \/ ApplyStyle
  \/ DismissLegend
  \/ \E v \in CatToggles : ToggleCategory(v)
  \/ ResetCategories

SpecCats == Init /\ [][NextCats]_vars

\* SpecShare: queries, style settings, the Share button and the opening of
\* the shared link.
NextShare ==
  \/ \E res \in StyleResults : RunQuery(res)
  \/ \E m \in Modes : SetMode(m)
  \/ \E c \in {"val", "cat"} : SetColumn(c)
  \/ \E name \in RampNames : SelectRamp(name)
  \/ InvertRamp
  \/ ApplyStyle
  \/ CopyShareURL
  \/ \E res \in StyleResults : OpenLink(res)
  \/ OpenLinkFails

SpecShare == Init /\ [][NextShare]_vars

\* SpecQuery: the editor, the safety cap and Run.
Queries ==
  {<<Word("SELECT"), Word("*"), Word("FROM"), Word("demo")>>,
   <<Word("SELECT"), Word("*"), Word("FROM"), Word("demo"), Word("LIMIT"), NumTok(1)>>,
   <<Word("select"), Word("*"), Word("from"), Word("demo"), Word("limit"), NumTok(1)>>,
   <<Word("SELECT"), Quote, Word("no"), Word("limit"), Quote, Word("FROM"), Word("demo")>>}
CapInputs == {<<>>, <<"0">>, <<"a", "b", "c">>, <<"1">>, <<"1", "2">>}

NextQuery ==
  \/ \E q \in Queries : EditSql(q)
  \/ \E chars \in CapInputs : SetSafetyCap(chars)
  \/ \E res \in QueryResults : RunQuery(res)

SpecQuery == Init /\ [][NextQuery]_vars

\* SpecTable: queries and every click on the results table and on the
\* features of the map.
NextTable ==
  \/ \E res \in QueryResults : RunQuery(res)
  \/ \E id \in 0..(MaxRows - 1) : MapClick(id)
  \/ \E id \in 0..(MaxRows - 1) : RowClick(id)
  \/ \E id \in 0..(MaxRows - 1) : CheckboxChange(id)
  \/ \E checked \in BOOLEAN : SelectAll(checked)
  \/ \E c \in {"val", "cat"} : HeaderClick(c)

SpecTable == Init /\ [][NextTable]_vars

\* SpecTheme: queries and styles, the theme toggle, the colour scheme of the
\* operating system, the basemap pills and page reloads.
NextTheme ==
  \/ \E res \in StyleResults : RunQuery(res)
  \/ \E m \in Modes : SetMode(m)
  \/ ApplyStyle
  \/ ToggleTheme
  \/ OsSchemeChange
  \/ \E name \in BasemapNames : SwitchBasemap(name)
  \/ \E res \in StyleResults : Reload(res)

SpecTheme == Init /\ [][NextTheme]_vars

\* SpecSession: loads and removals of tables, the completion of the
\* requests on the store, and restarts of the page.
SessionResults == {r \in QueryResults : r.rows = RowsAt({1, 2}) /\ r.cols[1] # "cat"}

NextSession ==
  \/ \E name \in TableNames : LoadTable(name)
  \/ LoadFails
  \/ \E name \in TableNames : RemoveTable(name)
  \/ \E res \in SessionResults : IdbCommit(res)
  \/ \E res \in SessionResults : Restart(res)

SpecSession == Init /\ [][NextSession]_vars

\* SpecDrag: queries, Apply, and every pointer gesture on the bar of the
\* graduated legend: the two handles, the pan of the selection window and
\* Reset Filter; the rows of the categorical legend.
DragXs == {-10, 30, 60, 130}

NextDrag ==
  \/ \E res \in StyleResults : RunQuery(res)
  \/ \E m \in Modes : SetMode(m)
  \/ ApplyStyle
  \/ \E v \in Cells : ToggleCategory(v)
  \/ ResetCategories
  \/ ResetFilter
  \/ \E h \in {"min", "max", "pan"}, x \in DragXs : MouseDown(h, x)
  \/ \E x \in DragXs : MouseMove(x)
  \/ MouseUp

SpecDrag == Init /\ [][NextDrag]_vars

\* SpecPanel: queries whose result may hold nothing but the geometry
\* (SELECT geom FROM t), the mode pills, the column select and Apply.  The
\* rows of such a result have no other cell to read.
GeometryOnlyResults ==
  {[cols |-> <<"geom">>, geomCol |-> "geom", rows |-> <<[val |-> Null, cat |-> Null, geom |-> TRUE]>>]}
PanelResults == StyleResults \cup GeometryOnlyResults

NextPanel ==
  \/ \E res \in PanelResults : RunQuery(res)
  \/ \E m \in Modes : SetMode(m)
  \/ \E c \in {"val", "cat"} : SetColumn(c)
  \/ \E m \in PanelMethods : SetMethod(m)
  \/ \E k \in PanelClassCounts : SetClassCount(k)
  \/ ApplyStyle

SpecPanel == Init /\ [][NextPanel]_vars

\* SpecSelect: a styled geometry result, the filters of the interactive
\* legend (category rows, the min and max handles) and the selection of
\* rows in the table.
NextSelect ==
  \/ \E res \in StyleResults : RunQuery(res)
  \/ \E m \in Modes : SetMode(m)
  \/ ApplyStyle
  \/ \E v \in Cells : ToggleCategory(v)
  \/ ResetCategories
  \/ \E h \in {"min", "max"} : MouseDown(h, 0)
  \/ \E x \in PointerXs : MouseMove(x)
  \/ MouseUp
  \/ \E id \in 0..(MaxRows - 1) : RowClick(id)
  \/ \E checked \in BOOLEAN : SelectAll(checked)

SpecSelect == Init /\ [][NextSelect]_vars

\* SpecLoading: queries, styles and basemap switches whose style takes time
\* to load, so that a query may complete in between.
NextLoading ==
  \/ \E res \in StyleResults : RunQuery(res)
  \/ \E m \in Modes : SetMode(m)
  \/ ApplyStyle
  \/ \E name \in BasemapNames : SetStyle(name)
  \/ StyleLoad

SpecLoading == Init /\ [][NextLoading]_vars

\* SpecOverlap: runQuery calls started while earlier ones wait for the
\* engine.  Table demo has a geometry column, table a has none, and a query
\* on a table has one result.
TableResult(name) ==
  IF name = "demo"
  THEN [cols |-> <<"geom", "val", "cat">>, geomCol |-> "geom", rows |-> RowsAt({1, 2})]
  ELSE [cols |-> <<"val", "cat">>, geomCol |-> NoCol, rows |-> RowsAt({2, 3})]

\* Ctrl+Enter on the query the editor holds.
CtrlEnter ==
  \E name \in {"a", "demo"} : editorSql = TableQuery(name) /\ StartQuery(TableResult(name))

NextOverlap ==
  \/ \E name \in {"a", "demo"} : SetEditorAndRun(name, TableResult(name))
  \/ CtrlEnter
  \/ EngineAnswers
  \/ \E m \in Modes : SetMode(m)
  \/ ApplyStyle
  \/ \E id \in 0..(MaxRows - 1) : RowClick(id)

SpecOverlap == Init /\ [][NextOverlap]_vars

\* SpecReject: queries the engine answers and queries it rejects, on a
\* result that is styled, filtered on the map and in the table, sorted and
\* selected.
NextReject ==
  \/ RunQuery(TableResult("demo"))
  \/ RunQueryRejected
  \/ \E q \in {TableQuery("a"), TableQuery("demo")} : EditSql(q)
  \/ SetMode("categorical")
  \/ SetColumn("cat")
  \/ ApplyStyle
  \/ ToggleCategory(Str("b"))
  \/ RowClick(0)
  \/ \E text \in {"", "a"} : TypeFilter("cat", text)
  \/ HeaderClick("val")

SpecReject == Init /\ [][NextReject]_vars

(***************************************************************************)
(* Properties of the classification functions (SpecBreaks)                 *)
(***************************************************************************)
NonDecreasing(bs) ==
  \A i \in 1..(Len(bs) - 1) : IsDefined(bs[i]) /\ IsDefined(bs[i + 1]) /\ RLe(bs[i], bs[i + 1])

\* C1: for every non-empty sample, every class count k and each method,
\* getBreaks returns exactly k+1 values in non-decreasing order, the first
\* being the sample minimum and the last the sample maximum.
C1_BreaksShape ==
  callResult.called =>
    /\ ~callResult.threw
    /\ Len(callResult.breaks) = callN + 1
    /\ \A i \in 1..Len(callResult.breaks) : IsDefined(callResult.breaks[i])
    /\ NonDecreasing(callResult.breaks)
    /\ callResult.breaks[1] = RInt(SeqMin(callValues))
    /\ callResult.breaks[Len(callResult.breaks)] = RInt(SeqMax(callValues))

\* Sum of squared deviations (times scale) of sorted[lo..hi-1], 0-based.
RECURSIVE SumFrom(_, _, _, _)
SumFrom(sorted, lo, hi, sq) ==
  IF lo >= hi THEN 0
  ELSE (IF sq THEN sorted[lo + 1] * sorted[lo + 1] ELSE sorted[lo + 1])
       + SumFrom(sorted, lo + 1, hi, sq)

SegSsd(sorted, lo, hi, scale) ==
  IF hi <= lo THEN 0
  ELSE scale * SumFrom(sorted, lo, hi, TRUE)
       - (scale \div (hi - lo)) * SumFrom(sorted, lo, hi, FALSE) * SumFrom(sorted, lo, hi, FALSE)

SetMin(S) == CHOOSE x \in S : \A y \in S : x <= y

\* Total cost of the split of sorted whose classes start at 0 and at the cuts.
RECURSIVE SplitCost(_, _, _, _)
SplitCost(sorted, lo, cuts, scale) ==
  IF cuts = {} THEN SegSsd(sorted, lo, Len(sorted), scale)
  ELSE LET c == SetMin(cuts)
       IN  SegSsd(sorted, lo, c, scale) + SplitCost(sorted, c, cuts \ {c}, scale)

\* Every split of len sorted values into k contiguous non-empty classes.
AllSplits(len, k) == {c \in SUBSET (1..(len - 1)) : Cardinality(c) = k - 1}

\* The class starts returned by the backtrack describe a split: starts are
\* defined indices, in non-decreasing order.
JenksSplitDefined(r, len, n) ==
  /\ ~r.threw
  /\ \A i \in 2..n : r.starts[i] >= 0 /\ r.starts[i] < len
  /\ \A i \in 2..(n - 1) : r.starts[i] <= r.starts[i + 1]

RECURSIVE JenksSplitCost(_, _, _, _, _)
JenksSplitCost(sorted, starts, i, n, scale) ==
  IF i > n THEN 0
  ELSE SegSsd(sorted, IF i = 1 THEN 0 ELSE starts[i],
              IF i = n THEN Len(sorted) ELSE starts[i + 1], scale)
       + JenksSplitCost(sorted, starts, i + 1, n, scale)

JenksOptimalOn(values, n) ==
  LET r == JenksRun(values, n)
      sorted == SortAsc(values)
      scale == Lcm1(Len(sorted))
  IN  /\ JenksSplitDefined(r, Len(sorted), n)
      /\ \A c \in AllSplits(Len(sorted), n) :
            JenksSplitCost(sorted, r.starts, 1, n, scale) <= SplitCost(sorted, 0, c, scale)

\* C2: for every sample of N > k numbers the split given by classifyJenks
\* (whenever the returned breaks describe one) has a total within-class sum
\* of squared deviations no larger than that of every split of the sorted
\* sample into k contiguous non-empty classes.
C2_JenksOptimal ==
  (/\ callResult.called
   /\ callMethod = "jenks"
   /\ Len(callValues) > callN
   /\ JenksSplitDefined(JenksRun(callValues, callN), Len(callValues), callN))
    => JenksOptimalOn(callValues, callN)

AllEqual(values) == \A i \in DOMAIN values : values[i] = values[1]

\* C3: for a non-empty sample whose values are all equal, getBreaks with any
\* method and class count completes without throwing and returns breaks
\* that are all equal to that value.
C3_AllEqualCollapses ==
  (callResult.called /\ AllEqual(callValues)) =>
    /\ ~callResult.threw
    /\ \A i \in 1..Len(callResult.breaks) : callResult.breaks[i] = RInt(callValues[1])


(***************************************************************************)
(* Properties of the style panel and of Apply (SpecStyle, Spec)            *)
(***************************************************************************)
\* The finite numbers a column holds: null, NaN and text are no values.
RECURSIVE NumericSample(_, _)
NumericSample(rows, col) ==
  IF rows = <<>> THEN <<>>
  ELSE (IF Head(rows)[col].t = "number" THEN <<Head(rows)[col].n>> ELSE <<>>)
       \o NumericSample(Tail(rows), col)

FewValues(sample, n) ==
  Len(sample) < n \/ Cardinality({sample[i] : i \in DOMAIN sample}) < n

AllDefined(breaks, n) == \A i \in 0..n : IsDefined(At0(breaks, i))

\* C4: previewing or applying a graduated style on a column with fewer
\* finite (or distinct) values than the class count never throws, and every
\* break the legend labels and every threshold of the paint expression is a
\* defined number.
C4_FewValuesNeverThrow ==
  (/\ lastEvent.name \in {"style", "apply"}
   /\ styleSettings.mode = "graduated"
   /\ styleSettings.col # NoCol
   /\ FewValues(NumericSample(currentRows, styleSettings.col), styleSettings.nClasses))
  => /\ ~lastEvent.threw
     /\ stylePreview.kind = "graduated"
          => AllDefined(stylePreview.breaks, styleSettings.nClasses)
     /\ (lastEvent.name = "apply" /\ legend.kind = "graduated")
          => AllDefined(legend.breaks, styleSettings.nClasses)
     /\ (lastEvent.name = "apply" /\ queryLayers.paint.kind = "step")
          => \A i \in DOMAIN queryLayers.paint.thresholds :
                IsDefined(queryLayers.paint.thresholds[i])

\* C5: the sample behind the breaks and behind the legend's absolute
\* minimum and maximum is exactly the finite numeric values of the styled
\* column; a null or non-finite value contributes nothing.
C5_SampleIsFiniteValues ==
  (/\ lastEvent = Event("apply", FALSE)
   /\ styleSettings.mode = "graduated"
   /\ styleSettings.col # NoCol
   /\ IsNumericColumn(currentRows, styleSettings.col))
  => LET sample == NumericSample(currentRows, styleSettings.col)
     IN  /\ legendAllValues = SortAsc(sample)
         /\ legend.kind = "graduated"
              => /\ legend.absMin = SeqMin(sample)
                 /\ legend.absMax = SeqMax(sample)

FirstNonGeometry(cols, geomCol) ==
  LET idx == {i \in DOMAIN cols : cols[i] # geomCol}
  IN  cols[CHOOSE i \in idx : \A j \in idx : i <= j]

\* C6: when runQuery completes, styleSettings equals the defaults (the column
\* being the first non-geometry column of a result with geometry),
\* styleApplied is false, hiddenCategories is empty and legendFilterRange is
\* null, whatever they were before.
C6_QueryResetsStyle ==
  lastEvent.name = "runQuery" =>
    /\ styleSettings.mode = "single"
    /\ styleSettings.method = "quantile"
    /\ styleSettings.nClasses = 5
    /\ styleSettings.ramp = "oranges"
    /\ ~styleSettings.rampInverted
    /\ styleSettings.opacity = 85
    /\ currentGeomCol # NoCol
         => styleSettings.col = FirstNonGeometry(currentCols, currentGeomCol)
    /\ ~styleApplied
    /\ hiddenCategories = {}
    /\ legendFilterRange = NoRange

\* A query has just completed on a result whose first column is the geometry,
\* over layers that still carry the paint (opacity 40%) and the category
\* filter of a categorical style applied and filtered before the query.
C6_Witness ==
  /\ lastEvent.name = "runQuery"
  /\ currentGeomCol # NoCol
  /\ currentCols[1] = currentGeomCol
  /\ queryLayers.paint.kind = "match"
  /\ queryLayers.paint.opacity = 40
  /\ queryLayers.filter.kind = "match"
  /\ styleSettings.col = "val"

(***************************************************************************)
(* Properties of the interactive legend (Spec)                             *)
(***************************************************************************)
\* C7: Reset Filter in the graduated legend removes the filter from the
\* query layers and sets the selection range to the minimum and maximum of
\* the styled column's sample.
C7_ResetFilterRestores ==
  (lastEvent.name = "resetFilter" /\ NumericSample(currentRows, legend.col) # <<>>) =>
    LET sample == NumericSample(currentRows, legend.col)
    IN  /\ queryLayers.exists => queryLayers.filter = NoFilter
        /\ legendFilterRange = Range(RInt(SeqMin(sample)), RInt(SeqMax(sample)))

\* C8: toggling the same category twice in a row restores hiddenCategories
\* and the filter of the query layers that held before the two toggles;
\* from nothing hidden the filter is none again.
C8_DoubleToggleRestores ==
  [][\A v \in Cells :
       ToggleCategory(v) =>
         LET again == ToggleHidden(hiddenCategories', v)
             layers == applyCategoricalFilter(queryLayers', legend'.col, legend'.unique, again)
         IN  /\ \E i \in DOMAIN legend'.unique : legend'.unique[i] = v
             /\ again = hiddenCategories
             /\ layers.filter = queryLayers.filter
             /\ hiddenCategories = {} => layers.filter = NoFilter]_vars

\* A category has just been toggled back on: nothing is hidden and the
\* layers carry no filter.
C8_Witness ==
  /\ lastEvent.name = "toggle"
  /\ legend.kind = "categorical"
  /\ Len(legend.unique) > 1
  /\ hiddenCategories = {}
  /\ queryLayers.exists
  /\ queryLayers.filter = NoFilter

\* C9: while the min handle is dragged selMin is the smaller of the pointer's
\* value (pointer clamped to the bar) and selMax minus 1% of absMax - absMin,
\* and the lower bound of the emitted range filter is that selMin; the max
\* handle is symmetric with selMin plus 1% of the range.
C9_HandleClamp ==
  [][(drag.handle \in {"min", "max"} /\ lastEvent'.name = "mousemove") =>
       LET x == lastEvent'.x
           range == drag.absMax - drag.absMin
           px == IF x < 0 THEN 0 ELSE IF x > BarWidth THEN BarWidth ELSE x
           pointer == Rat(drag.absMin * BarWidth + px * range, BarWidth)
           gap == Rat(range, 100)
           low == RSub(drag.selMax, gap)
           high == RAdd(drag.selMin, gap)
           expMin == IF drag.handle = "max" THEN drag.selMin
                     ELSE IF RLe(pointer, low) THEN pointer ELSE low
           expMax == IF drag.handle = "min" THEN drag.selMax
                     ELSE IF RLe(high, pointer) THEN pointer ELSE high
       IN  /\ drag'.selMin = expMin
           /\ drag'.selMax = expMax
           /\ legendFilterRange' = Range(expMin, expMax)
           /\ queryLayers'.exists
                => /\ queryLayers'.filter.kind = "range"
                   /\ queryLayers'.filter.min = expMin
                   /\ queryLayers'.filter.max = expMax]_vars

\* absMin = 0, absMax = 100, selMax = 80 and the min handle's pointer at 90:
\* selMin and the filter's lower bound are 79.
C9_Witness ==
  /\ lastEvent = PointerEvent("mousemove", 90)
  /\ drag.handle = "min"
  /\ drag.absMin = 0
  /\ drag.absMax = 100
  /\ drag.selMax = RInt(80)
  /\ drag.selMin = RInt(79)
  /\ legendFilterRange = Range(RInt(79), RInt(80))
  /\ queryLayers.filter.kind = "range"
  /\ queryLayers.filter.min = RInt(79)

\* C10: after every category toggle and after the categorical Reset the
\* filter of the query layers is none when no category is hidden, always
\* false when every category is hidden, and otherwise an inclusion list
\* holding exactly the categories that are not hidden.
C10_CategoryFilter ==
  (lastEvent.name \in {"toggle", "resetCategories"} /\ queryLayers.exists) =>
    LET visible == SelectSeq(legend.unique, LAMBDA v : v \notin hiddenCategories)
    IN  IF hiddenCategories = {} THEN queryLayers.filter = NoFilter
        ELSE IF visible = <<>> THEN queryLayers.filter = FalseFilter
        ELSE /\ queryLayers.filter.kind = "match"
             /\ queryLayers.filter.col = legend.col
             /\ queryLayers.filter.list = visible

(***************************************************************************)
(* Properties of the categorical palette (SpecCats)                        *)
(***************************************************************************)
AllText(unique) == \A i \in DOMAIN unique : unique[i].t = "string"

\* C11: after Apply in categorical mode on a text column, the paint
\* expression draws each of the first 20 distinct values (first-seen order)
\* with its palette colour and every later distinct value with the fallback
\* colour, and the legend lists at most 20 categories.
C11_TopTwentyColoured ==
  (/\ lastEvent = Event("apply", FALSE)
   /\ styleSettings.mode = "categorical"
   /\ styleSettings.col # NoCol
   /\ queryLayers.exists
   /\ AllText(UniqueValues(currentRows, styleSettings.col))) =>
    LET unique == UniqueValues(currentRows, styleSettings.col)
    IN  /\ \A i \in DOMAIN unique :
             MatchColor(queryLayers.paint, unique[i]) =
               (IF i <= 20 THEN PaletteColor(i - 1) ELSE "#aaaaaa")
        /\ Len(legend.unique) <= 20

(***************************************************************************)
(* Properties of the legend card (Spec)                                    *)
(***************************************************************************)
\* C12: after a click on the legend's dismiss button the query layers carry
\* no filter and the filter state is empty (no hidden category, no range
\* narrower than the full range); the breaks are the ones computed by the
\* last Apply.
C12_DismissClearsFilter ==
  [][DismissLegend =>
       /\ queryLayers'.exists => queryLayers'.filter = NoFilter
       /\ legendFilterRange' \in {NoRange, Range(RInt(legend.absMin), RInt(legend.absMax))}
       /\ hiddenCategories' = {}
       /\ legendBreaks' = legendBreaks]_vars

(***************************************************************************)
(* Properties of share links (SpecShare)                                   *)
(***************************************************************************)
\* C13: after the app was opened with a share link and start-up has run the
\* link's SQL, styleSettings is the style encoded in the link (a link made
\* for a result with a geometry and with the link's column).
C13_LinkReproducesStyle ==
  (/\ lastEvent = Event("openLink", FALSE)
   /\ clipboard.set
   /\ currentGeomCol # NoCol
   /\ ColumnOptions(currentCols, currentGeomCol)[1] = clipboard.style.col) =>
    /\ lastSent = CappedSql(clipboard.sql, safetyCapInput)
    /\ styleSettings = clipboard.style

(***************************************************************************)
(* Properties of the safety cap (SpecQuery)                                *)
(***************************************************************************)
\* The number a decimal numeral stands for (0 for the empty text).
RECURSIVE DecimalValue(_)
DecimalValue(chars) ==
  IF chars = <<>> THEN 0
  ELSE 10 * DecimalValue(SubSeq(chars, 1, Len(chars) - 1)) + DigitOf(chars[Len(chars)])

\* The cap the input stands for: its value, or 50000 when it is empty, zero
\* or not a number.
StatedCap(chars) ==
  IF chars # <<>> /\ (\A i \in DOMAIN chars : IsDigit(chars[i])) /\ DecimalValue(chars) # 0
  THEN DecimalValue(chars)
  ELSE 50000

\* C14: a query without a LIMIT clause of its own is sent with LIMIT cap
\* appended and its result has at most cap rows; a query with its own LIMIT
\* clause is sent unchanged.
C14_SafetyCapAppended ==
  (lastEvent.name = "runQuery") =>
    IF LimitClauses(editorSql) # {}
    THEN lastSent = editorSql
    ELSE /\ lastSent =
              editorSql \o <<NewLine, Word("LIMIT"), NumTok(StatedCap(safetyCapInput))>>
         /\ Len(currentRows) <= StatedCap(safetyCapInput)

(***************************************************************************)
(* Properties of the results table (SpecTable)                             *)
(***************************************************************************)
\* C15: a click on a feature of the map leaves the row of that feature
\* selected, its checkbox checked and its geometry in the highlight source,
\* whatever the selection was before.
C15_MapClickSelects ==
  [][\A id \in 0..(MaxRows - 1) :
       MapClick(id) =>
         /\ id \in selectedIds'
         /\ id \in checkedIds'
         /\ id \in highlightIds']_vars

\* The state that follows dir in the cycle ascending, descending, cleared.
AfterInCycle(dir) ==
  IF dir = "asc" THEN "desc" ELSE IF dir = "desc" THEN "none" ELSE "asc"

\* C16: clicks on the header of the sorted column cycle ascending,
\* descending, cleared; a click on another column sorts that column
\* ascending; sortState.col is null exactly when sortState.dir is null; a
\* new query clears the sort.
C16_SortCycle ==
  /\ [](sortState.col = NoCol <=> sortState.dir = "none")
  /\ [][/\ \A c \in {"val", "cat"} :
             HeaderClick(c) =>
               IF sortState.col = c
               THEN /\ sortState'.dir = AfterInCycle(sortState.dir)
                    /\ sortState'.dir # "none" => sortState'.col = c
               ELSE sortState' = [col |-> c, dir |-> "asc"]
        /\ (\E res \in QueryResults : RunQuery(res)) => sortState' = NoSort]_vars

C16_Witness ==
  /\ lastEvent = Event("sort", FALSE)
  /\ sortState = NoSort
  /\ currentRows # <<>>

(***************************************************************************)
(* Properties of the theme (SpecTheme)                                     *)
(***************************************************************************)
\* The theme that matches the colour scheme of the operating system.
OsTheme(dark) == IF dark THEN "dark" ELSE "light"

\* C17: as long as the theme toggle was never clicked, the theme is the one
\* that matches the operating system's colour scheme, also after a change
\* of the scheme and after a reload; once the toggle was clicked, only the
\* toggle changes the theme.
C17_ThemeFollowsOS ==
  /\ [](~themeToggled => currentTheme = OsTheme(osDark))
  /\ [][(themeToggled /\ lastEvent'.name # "toggleTheme") =>
          currentTheme' = currentTheme]_vars

Tenth == Rat(1, 10)

\* C19: for the column 0.1, 0.2, 0.2, 0.5, 0.9, three classes and equal
\* intervals, the breaks are 0.1, 0.1 + 0.8/3, 0.1 + 1.6/3 and 0.9, and the
\* step expression built from them puts 0.2 in class 0 and 0.5 in class 1.
C19_EqualIntervalExample ==
  (/\ callResult.called
   /\ callValues = TenthsSample
   /\ callMethod = "equal"
   /\ callN = 3) =>
    LET b == callResult.breaks
        paint == StepPaint("val", b, [DEFAULT_STYLE EXCEPT !.nClasses = 3])
    IN  /\ ~callResult.threw
        /\ [i \in DOMAIN b |-> RMul(b[i], Tenth)] =
             <<Tenth, RAdd(Tenth, Rat(8, 30)), RAdd(Tenth, Rat(16, 30)), Rat(9, 10)>>
        /\ StepClass(paint, RInt(2)) = 0
        /\ StepClass(paint, RInt(5)) = 1

C19_Witness ==
  /\ callResult.called
  /\ callValues = TenthsSample
  /\ callMethod = "equal"
  /\ callN = 3
  /\ Len(callResult.breaks) = 4

(***************************************************************************)
(* Properties of the ramp resampling (SpecRamp)                            *)
(***************************************************************************)
\* C20: for every base ramp, inverted or not, and every k in 3..9, the
\* ramp resampled to k has exactly k colours, and resampling the result to
\* k again returns the same colours.
C20_ResampleIdempotent ==
  /\ [](rampCall.calls > 0 => Len(rampCall.result) = rampCall.n)
  /\ [][rampCall.calls > 0 => rampCall'.result = rampCall.result]_vars

C20_Witness ==
  /\ rampCall.calls = 2
  /\ rampCall.ramp = "viridis"
  /\ rampCall.inverted
  /\ rampCall.n = 7
  /\ Len(rampCall.result) = 7
  /\ rampCall.result[1] = COLOR_RAMPS["viridis"][5]

(***************************************************************************)
(* Properties of the map layers after a query (Spec)                       *)
(***************************************************************************)
\* C21: in every state where legendFilterRange is null and hiddenCategories
\* is empty, the query layers carry no filter; so after a geometry query
\* every feature of the new result is visible.
C21_NoFilterStateNoFilter ==
  (legendFilterRange = NoRange /\ hiddenCategories = {} /\ queryLayers.exists) =>
    queryLayers.filter = NoFilter

\* C22: in every state where styleApplied is false, the query layers carry
\* the default paint: nothing of a style applied to an earlier result is
\* left on them.
C22_NotAppliedDefaultPaint ==
  (~styleApplied /\ queryLayers.exists) => queryLayers.paint = DefaultPaint

(***************************************************************************)
(* Properties of the interactive graduated legend (Spec)                   *)
(***************************************************************************)
\* C23: when an Apply renders the graduated legend, the legend shows the
\* selected column, the least and greatest finite value of that column and
\* the breaks of those values for the selected method and class count.
C23_LegendOfThisApply ==
  [][(ApplyStyle /\ legend'.kind = "graduated") =>
       LET values == SortAsc(FiniteValues(currentRows, styleSettings.col))
       IN  /\ legend'.col = styleSettings.col
           /\ values # <<>>
           /\ legend'.absMin = values[1]
           /\ legend'.absMax = values[Len(values)]
           /\ legend'.breaks =
                 getBreaks(values, styleSettings.method, styleSettings.nClasses).breaks]_vars

(***************************************************************************)
(* Properties of the pointer gestures on the legend bar (SpecDrag)         *)
(***************************************************************************)
\* C24: when a query result has arrived during a handle drag or a pan, the
\* pointer moves of that drag that follow change neither legendFilterRange
\* nor the filter of the query layers, and raise no error.
C24_OldDragDiscarded ==
  [][(drag.handle # "none" /\ ~drag.live /\ lastEvent'.name = "mousemove") =>
       /\ legendFilterRange' = legendFilterRange
       /\ queryLayers' = queryLayers
       /\ ~lastEvent'.threw]_vars

\* C25: the selection shown by the graduated legend, and the selection of
\* a drag in progress, lie in the absolute range in order, and their width
\* is at least 1% of the absolute range.
WindowSound(absMin, absMax, selMin, selMax) ==
  /\ RLe(RInt(absMin), selMin)
  /\ RLe(selMin, selMax)
  /\ RLe(selMax, RInt(absMax))
  /\ RLe(Rat(absMax - absMin, 100), RSub(selMax, selMin))

C25_WindowSound ==
  /\ legend.kind = "graduated" =>
       WindowSound(legend.absMin, legend.absMax, legend.selMin, legend.selMax)
  /\ drag.handle # "none" =>
       WindowSound(drag.absMin, drag.absMax, drag.selMin, drag.selMax)

\* A window panned against the upper end of the bar, after both handles
\* were dragged.
C25_Witness ==
  /\ legend.kind = "graduated"
  /\ drag.handle = "pan"
  /\ lastEvent.name = "mousemove"
  /\ legend.absMin = 0
  /\ legend.absMax = 100
  /\ legend.selMax = RInt(100)
  /\ legend.selMin = RInt(70)

\* C26: at every pointer move of a pan the width of the window is its
\* width at the start of the drag and both bounds have moved by the same
\* amount: by the pointer's displacement, or less when the window stops at
\* absMin or absMax.
C26_PanKeepsWidth ==
  [][(drag.handle = "pan" /\ lastEvent'.name = "mousemove") =>
       LET dx == Rat((lastEvent'.x - drag.startX) * (drag.absMax - drag.absMin), BarWidth)
           shift == RSub(drag'.selMin, drag.startMin)
       IN  /\ RSub(drag'.selMax, drag'.selMin) = RSub(drag.startMax, drag.startMin)
           /\ RSub(drag'.selMax, drag.startMax) = shift
           /\ IF RLt(RAdd(drag.startMin, dx), RInt(drag.absMin))
              THEN drag'.selMin = RInt(drag.absMin)
              ELSE IF RLt(RInt(drag.absMax), RAdd(drag.startMax, dx))
              THEN drag'.selMax = RInt(drag.absMax)
              ELSE shift = dx]_vars

\* A window of width 30 panned from 30..60 against the lower end: 0..30.
C26_Witness ==
  /\ drag.handle = "pan"
  /\ lastEvent = PointerEvent("mousemove", -10)
  /\ drag.startMin = RInt(30)
  /\ drag.startMax = RInt(60)
  /\ drag.selMin = RInt(0)
  /\ drag.selMax = RInt(30)

\* C27: after every pointer move of a handle drag or a pan, before the
\* pointer is released, legendFilterRange is the selection of the drag and
\* the filter of the existing query layers is the range predicate of the
\* dragged legend's column on those two values; the bar shows them.
C27_LiveRangeFilter ==
  (lastEvent.name = "mousemove") =>
    /\ drag.handle # "none"
    /\ legendFilterRange = Range(drag.selMin, drag.selMax)
    /\ queryLayers.exists =>
         queryLayers.filter = RangeFilter(drag.col, drag.selMin, drag.selMax)
    /\ drag.live => (legend.selMin = drag.selMin /\ legend.selMax = drag.selMax)

\* The max handle dragged to 60 of 0..100: the filter is 0 <= val <= 60.
C27_Witness ==
  /\ lastEvent = PointerEvent("mousemove", 60)
  /\ drag.handle = "max"
  /\ drag.live
  /\ queryLayers.exists
  /\ queryLayers.filter = RangeFilter("val", RInt(0), RInt(60))
  /\ legendFilterRange = Range(RInt(0), RInt(60))

\* C28: a pointer gesture on the legend bar, a click on a category row, or
\* a Reset of either legend leaves styleSettings, legendBreaks,
\* legendAllValues, the paint of the query layers, currentRows and
\* selectedIds as they were.
C28_FilterOnlyFrame ==
  [][(\/ \E h \in {"min", "max", "pan"}, x \in DragXs : MouseDown(h, x)
      \/ \E x \in DragXs : MouseMove(x)
      \/ MouseUp
      \/ \E v \in Cells : ToggleCategory(v)
      \/ ResetCategories
      \/ ResetFilter) =>
       /\ UNCHANGED <<styleSettings, legendBreaks, legendAllValues, currentRows,
                      selectedIds>>
       /\ queryLayers'.exists = queryLayers.exists
       /\ queryLayers'.paint = queryLayers.paint]_vars

\* Reset Filter after a drag, on layers that carry a step expression.
C28_Witness ==
  /\ lastEvent.name = "resetFilter"
  /\ legendBreaks # <<>>
  /\ queryLayers.exists
  /\ queryLayers.paint.kind = "step"
  /\ queryLayers.filter = NoFilter

(***************************************************************************)
(* Properties of the graduated paint (SpecStyle)                           *)
(***************************************************************************)
\* The class of v for the breaks b of k classes: the largest i in 1..k-1
\* with v >= b[i], and 0 when there is none.
UpperClass(b, k, v) ==
  LET above == {i \in 1..(k - 1) : RLe(At0(b, i), v)}
  IN  IF above = {} THEN 0 ELSE CHOOSE i \in above : \A j \in above : j <= i

\* C29: a graduated Apply with k classes pushes a step expression on the
\* column whose base colour is ramp[0], followed by the k-1 pairs
\* (breaks[i], ramp[i]); a value is coloured ramp[i] for the largest i with
\* v >= breaks[i] and ramp[0] below breaks[1], so a value equal to a
\* threshold is in the upper class.
C29_StepExpression ==
  [][(/\ ApplyStyle
      /\ styleSettings.mode = "graduated"
      /\ styleSettings.col # NoCol
      /\ queryLayers.exists
      /\ IsNumericColumn(currentRows, styleSettings.col)
      /\ FiniteValues(currentRows, styleSettings.col) # <<>>
      /\ ~getBreaks(FiniteValues(currentRows, styleSettings.col), styleSettings.method,
                    styleSettings.nClasses).threw) =>
       LET k == styleSettings.nClasses
           values == FiniteValues(currentRows, styleSettings.col)
           b == getBreaks(values, styleSettings.method, k).breaks
           ramp == interpolateRampToN(getRamp(styleSettings), k)
           p == queryLayers'.paint
       IN  /\ p.kind = "step"
           /\ p.col = styleSettings.col
           /\ Len(p.thresholds) = k - 1
           /\ Len(p.colors) = k
           /\ p.colors[1] = ramp[1]
           /\ \A i \in 1..(k - 1) :
                 p.thresholds[i] = At0(b, i) /\ p.colors[i + 1] = ramp[i + 1]
           /\ (\A i \in 1..(k - 1) : IsDefined(At0(b, i))) =>
                 \A j \in DOMAIN values :
                   StepColor(p, RInt(values[j])) = ramp[UpperClass(b, k, RInt(values[j])) + 1]]_vars

\* Three quantile classes of 0 and 100: the thresholds are 0 and 100, and
\* 100, equal to the last threshold, takes the last colour of the ramp.
C29_Witness ==
  /\ lastEvent.name = "apply"
  /\ queryLayers.exists
  /\ queryLayers.paint.kind = "step"
  /\ queryLayers.paint.thresholds = <<RInt(0), RInt(100)>>
  /\ StepClass(queryLayers.paint, RInt(100)) = 2
  /\ StepColor(queryLayers.paint, RInt(100)) = COLOR_RAMPS["viridis"][5]

\* The value at 0-based index j of the sample in ascending order: fewer than
\* j + 1 values lie below it and at least j + 1 values are at most it.
RankValue(values, j) ==
  CHOOSE v \in {values[p] : p \in DOMAIN values} :
    /\ Cardinality({p \in DOMAIN values : values[p] < v}) <= j
    /\ Cardinality({p \in DOMAIN values : values[p] <= v}) > j

\* C30 (as amended): for a non-empty sample of N values and k classes,
\* classifyQuantile returns k + 1 breaks: break 0 is the minimum, break k the
\* maximum, and break i (0 < i < k) the element at 0-based index
\* floor(i * N / k) of the sample sorted ascending; for the sample 1..100 and
\* k = 4 the breaks are 1, 26, 51, 76, 100.
C30_QuantileBreaks ==
  (callResult.called /\ callMethod = "quantile") =>
    LET N == Len(callValues)
        k == callN
        b == callResult.breaks
    IN  /\ ~callResult.threw
        /\ Len(b) = k + 1
        /\ At0(b, 0) = RInt(SeqMin(callValues))
        /\ At0(b, k) = RInt(SeqMax(callValues))
        /\ \A i \in 1..(k - 1) : At0(b, i) = RInt(RankValue(callValues, (i * N) \div k))
        /\ (callValues = HundredSample /\ k = 4) =>
              b = <<RInt(1), RInt(26), RInt(51), RInt(76), RInt(100)>>

\* C30 as stated: the quartile breaks of the sample 1..100 are
\* 1, 25, 50, 75, 100.
C30_HundredAsStated ==
  (callResult.called /\ callMethod = "quantile" /\ callValues = HundredSample /\ callN = 4) =>
    callResult.breaks = <<RInt(1), RInt(25), RInt(50), RInt(75), RInt(100)>>

\* classifyQuantile has been called on the sample 1..100 with four classes
\* and has returned five breaks from 1 to 100.
C30_Witness ==
  /\ callResult.called
  /\ callMethod = "quantile"
  /\ callValues = HundredSample
  /\ callN = 4
  /\ Len(callResult.breaks) = 5
  /\ callResult.breaks[1] = RInt(1)
  /\ callResult.breaks[5] = RInt(100)

\* s holds the column name c.
HasColumn(s, c) == \E i \in DOMAIN s : s[i] = c

\* C31: in every state reached through queries and the style panel the mode
\* is one of single, graduated, categorical, and whenever it is graduated or
\* categorical styleSettings.col is a non-geometry column of the current
\* result (never null).
C31_ColumnOfCurrentResult ==
  /\ styleSettings.mode \in Modes
  /\ styleSettings.mode # "single" =>
        /\ styleSettings.col # NoCol
        /\ styleSettings.col # currentGeomCol
        /\ HasColumn(currentCols, styleSettings.col)

\* C32: after any sequence of row clicks, checkbox changes, select-all
\* changes and clicks on map features, the features of the highlight source
\* are exactly the current rows whose id is selected and that have a
\* geometry; a completed query leaves the selection and the highlight source
\* empty.
C32_HighlightIsSelection ==
  /\ [](highlightIds = IF queryLayers.exists THEN selectedIds \cap GeomIds(currentRows)
                        ELSE {})
  /\ [][(\E res \in QueryResults : RunQuery(res)) =>
          (selectedIds' = {} /\ highlightIds' = {})]_vars

\* Select-all on a geometry result with a row that has no geometry: both
\* rows are selected and only the one with a geometry is highlighted.
C32_Witness ==
  /\ lastEvent.name = "selectAll"
  /\ queryLayers.exists
  /\ selectedIds = {0, 1}
  /\ highlightIds = {0}

\* The legend filter in force excludes the row: its category is hidden, or
\* its number lies outside the selected range.
ExcludedByLegend(row) ==
  \/ /\ legend.kind = "categorical"
     /\ row[legend.col] \in hiddenCategories
  \/ /\ legend.kind = "graduated"
     /\ legendFilterRange.set
     /\ row[legend.col].t = "number"
     /\ \/ RLt(RInt(row[legend.col].n), legendFilterRange.min)
        \/ RLt(legendFilterRange.max, RInt(row[legend.col].n))

\* C33: a feature excluded by the legend filter in force is drawn by no
\* layer of the map, whether or not its row is selected: it has no feature in
\* the source of the selection-highlight layers.
C33_ExcludedNotDrawn ==
  \A id \in RowIds(currentRows) :
    (queryLayers.exists /\ ExcludedByLegend(currentRows[id + 1])) => id \notin highlightIds

\* C34: after every Apply that ends without an error the legend card and
\* the paint of the query layers are of one kind: the graduated legend is
\* shown exactly when the paint is a step expression on the chosen column,
\* the categorical legend exactly when it is a match expression on it.
C34_LegendKindIsPaintKind ==
  (lastEvent.name = "apply" /\ ~lastEvent.threw /\ queryLayers.exists) =>
    /\ legend.kind = "graduated" <=>
          (queryLayers.paint.kind = "step" /\ queryLayers.paint.col = styleSettings.col)
    /\ legend.kind = "categorical" <=>
          (queryLayers.paint.kind = "match" /\ queryLayers.paint.col = styleSettings.col)

\* C35: when a basemap switch finishes on a map whose layers carried an
\* applied style, the paint of the re-created query layers is the paint they
\* had, that of the last Apply, whatever the panel's settings have become.
C35_SwitchKeepsAppliedPaint ==
  [][(currentBasemap' # currentBasemap /\ styleApplied /\ queryLayers.exists) =>
       /\ queryLayers'.exists
       /\ queryLayers'.paint = queryLayers.paint]_vars

\* C36: whenever no basemap style is loading and the current result has a
\* geometry column, the features in the map's query sources are those of
\* currentRows; in particular after the style has loaded following a query
\* that completed during the load.
C36_SourcesShowCurrentRows ==
  (~styleLoading /\ currentGeomCol # NoCol) => sourceFeatures = Features(currentRows)

\* C37: once every overlapping runQuery call has completed, currentRows,
\* currentCols and the persisted last query are those of the call that was
\* started last.
C37_LastStartedWins ==
  (lastStarted.set /\ inflight = <<>>) =>
    /\ currentRows = lastStarted.res.rows
    /\ currentCols = lastStarted.res.cols
    /\ idbLastQuery = lastStarted.sql

\* C38: when the engine rejects the query, the result, the selection, the
\* table filters, the sort state, the style settings and their applied flag,
\* the legend filters and the map layers are left as they were, the error
\* banner is shown, one failed entry for the query is put in front of the
\* history, and the persisted last query is not changed.
C38_RejectionChangesNothing ==
  [][RunQueryRejected =>
       /\ UNCHANGED <<currentRows, currentCols, selectedIds, filterValues, sortState,
                      styleSettings, styleApplied, legendFilterRange, hiddenCategories,
                      queryLayers, sourceFeatures, highlightIds, idbLastQuery>>
       /\ errorVisible'
       /\ queryHistory' # <<>>
       /\ queryHistory'[1] = [sql |-> editorSql, success |-> FALSE]
       /\ \A i \in 2..Len(queryHistory') : queryHistory'[i] = queryHistory[i - 1]]_vars

\* A rejected query on a result that is styled by category with a category
\* hidden, filtered in the table, sorted and selected, after a query that
\* succeeded: the history holds the failed entry in front of the old one.
C38_Witness ==
  /\ lastEvent.name = "queryFailed"
  /\ errorVisible
  /\ currentRows # <<>>
  /\ selectedIds # {}
  /\ filterValues["cat"] = "a"
  /\ sortState # NoSort
  /\ styleApplied
  /\ hiddenCategories # {}
  /\ queryLayers.filter # NoFilter
  /\ Len(queryHistory) = 2
  /\ ~queryHistory[1].success
  /\ queryHistory[2].success
  /\ idbLastQuery # queryHistory[1].sql
====
